---- MODULE Spec2Model ----
(***************************************************************************)
(* Online store: the domain model (app/models.py) and the main window's    *)
(* handlers (app/main.py).                                                 *)
(*                                                                         *)
(* Python objects live in heaps: a product, a cart line, an order or a     *)
(* customer is named by its position in the heap sequence, and a list      *)
(* attribute holds such positions, so two lists that hold the same object  *)
(* see each other's changes, as in the program.                            *)
(*                                                                         *)
(* Money: a price is a whole number of price units.  discount_price() and  *)
(* every sum of subtotals are exact numbers of 1/10000 of a price unit     *)
(* (two percentages have been applied), and a payment amount is an exact   *)
(* number of 1/1000000 of a price unit (a third percentage, the fee).      *)
(* Floating rounding is not modelled.                                      *)
(***************************************************************************)
EXTENDS Integers, Sequences, FiniteSets, TLC

VARIABLES
    products,     \* heap of Product objects
    catalog,      \* StoreManager._products: positions in products
    table,        \* ProductTableModel._products: positions in products
    cartItems,    \* heap of CartItem objects
    cart,         \* ShoppingCart._items: positions in cartItems
    orders,       \* heap of Order objects
    customers,    \* heap of Customer objects
    ledger,       \* StoreManager._orders: positions in orders
    clock,        \* what datetime.datetime.now() returns next
    files,        \* the files under DATA_DIR, by codec
    savedFrom,    \* per file, the manager's content when it was written
    last          \* the call that produced this state

vars == <<products, catalog, table, cartItems, cart, orders, customers,
          ledger, clock, files, savedFrom, last>>

----------------------------------------------------------------------------
(* Bounds of the model *)

MaxCatalog == 4       \* products in the catalog
MaxCartLines == 2     \* lines in the cart
MaxOrders == 2        \* orders in the ledger
MaxClock == 6         \* readings of the clock
MaxQty == 2           \* largest quantity the spin box offers
MaxStock == 1         \* stock of the sample products
MaxFiles == 1         \* files in DATA_DIR
MaxLineQty == 2       \* quantity of a cart line
MaxCartRows == 2      \* catalog rows whose products a caller puts in the cart
MaxHeld == 1          \* orders a caller of the domain classes records
MaxEdits == 1         \* changes of catalog products in one run
MaxHeldEdits == 2     \* setter calls on the products a cart holds

----------------------------------------------------------------------------
(* Python values *)

\* Optional[T]: None is the empty sequence, a value v is <<v>>.
None == <<>>
Some(v) == <<v>>

\* dict.get(key, default)
Get(d, key, default) == IF key \in DOMAIN d THEN d[key] ELSE default

\* x or default, for a string x
OrStr(x, default) == IF x = "" THEN default ELSE x

\* The strings the model compares (names, categories, manufacturers), in
\* Python's string order.
NameRank(n) ==
    CASE n = "" -> 0
      [] n = "Clothing" -> 1
      [] n = "Desk" -> 2
      [] n = "Electronics" -> 3
      [] n = "Furni" -> 4
      [] n = "Furniture" -> 5
      [] n = "Jacket" -> 6
      [] n = "Knit" -> 7
      [] n = "Laptop" -> 8
      [] n = "Scarf" -> 9
      [] n = "TechCorp" -> 10
      [] n = "Unknown" -> 11
      [] n = "Warm&Co" -> 12

\* str.strip().lower() on the materials the model uses
StripLower(m) ==
    CASE m = "Wool" -> "wool"
      [] m = " WOOL " -> "wool"
      [] m = "Vovna" -> "vovna"
      [] m = "Cotton" -> "cotton"
      [] OTHER -> m

SeqSum(f, n) ==
    LET RECURSIVE Go(_)
        Go(i) == IF i = 0 THEN 0 ELSE Go(i - 1) + f[i]
    IN Go(n)

----------------------------------------------------------------------------
(* Product hierarchy *)

base_discount == 2    \* percent

Electronics(name, category, price, stock, manufacturer, warranty_years, has_wifi) ==
    [cls |-> "Electronics", name |-> name, category |-> category,
     price |-> price, stock |-> stock, manufacturer |-> manufacturer,
     warranty_years |-> warranty_years, has_wifi |-> has_wifi]

Clothing(name, category, price, stock, manufacturer, size, material) ==
    [cls |-> "Clothing", name |-> name, category |-> category,
     price |-> price, stock |-> stock, manufacturer |-> manufacturer,
     size |-> size, material |-> material]

Furniture(name, category, price, stock, manufacturer, weight, assembled) ==
    [cls |-> "Furniture", name |-> name, category |-> category,
     price |-> price, stock |-> stock, manufacturer |-> manufacturer,
     weight |-> weight, assembled |-> assembled]

\* the rates with the warranty threshold above 2 years
specific_discount_rate_above_2(p) ==
    CASE p.cls = "Electronics" -> IF p.warranty_years > 2 THEN 5 ELSE 3
      [] p.cls = "Clothing" ->
            IF StripLower(p.material) \in {"wool", "vovna"} THEN 4 ELSE 2
      [] p.cls = "Furniture" -> IF p.weight > 50 THEN 6 ELSE 3

\* percent
specific_discount_rate(p) ==
    CASE p.cls = "Electronics" -> IF p.warranty_years >= 2 THEN 5 ELSE 3
      [] p.cls = "Clothing" ->
            IF StripLower(p.material) \in {"wool", "vovna"} THEN 4 ELSE 2
      [] p.cls = "Furniture" -> IF p.weight > 50 THEN 6 ELSE 3

\* in 1/100 of a price unit
Product_discount_price(p) ==
    p.price * (100 - (base_discount + specific_discount_rate(p)))

\* in 1/10000 of a price unit; Electronics overrides with the Wi-Fi factor
discount_price(p) ==
    IF p.cls = "Electronics"
    THEN Product_discount_price(p) * (IF p.has_wifi THEN 97 ELSE 100)
    ELSE Product_discount_price(p) * 100

Sign(x, y) == (IF x > y THEN 1 ELSE 0) - (IF x < y THEN 1 ELSE 0)

\* comparison by price alone
compare_to_price_only(a, b) == Sign(a.price, b.price)

compare_to(a, b) ==
    IF a.price = b.price
    THEN Sign(NameRank(a.name), NameRank(b.name))
    ELSE Sign(a.price, b.price)

Product_eq(a, b) == compare_to(a, b) = 0

\* __lt__
Product_lt(a, b) == compare_to(a, b) < 0

name_setter_raises(value) == value = ""

\* a price setter without its check
price_setter_never_raises(value) == FALSE

price_setter_raises(value) == value < 0

stock_setter_raises(value) == value < 0
restock_raises(amount) == amount <= 0

\* purchase without the check against the stock
purchase_raises_on_sign(p, amount) == amount <= 0

purchase_raises(p, amount) == amount <= 0 \/ amount > p.stock

----------------------------------------------------------------------------
(* The object graph as one value, so that a handler is a composition of    *)
(* the methods it calls.                                                   *)

Cur ==
    [products |-> products, catalog |-> catalog, table |-> table,
     cartItems |-> cartItems, cart |-> cart, orders |-> orders,
     customers |-> customers, ledger |-> ledger, clock |-> clock]

\* Objects no list reaches any more are dropped from the heaps, and the
\* others keep their order: what Python's reference counting does, seen
\* through positions instead of addresses.
Range(f) == {f[i] : i \in DOMAIN f}
Renum(S, x) == Cardinality({y \in S : y <= x})
Nth(S, n) == CHOOSE x \in S : Renum(S, x) = n
Kept(heap, S) == [i \in 1..Cardinality(S) |-> heap[Nth(S, i)]]
RenumSeq(S, q) == [i \in 1..Len(q) |-> Renum(S, q[i])]

collect(s) ==
    LET LO == Range(s.ledger)
        LC == {s.orders[o].customer : o \in LO}
        LI == Range(s.cart) \cup UNION {Range(s.orders[o].items) : o \in LO}
        LP == Range(s.catalog) \cup Range(s.table)
                \cup {s.cartItems[ci].product : ci \in LI}
    IN [products |-> Kept(s.products, LP),
        catalog |-> RenumSeq(LP, s.catalog),
        table |-> RenumSeq(LP, s.table),
        cartItems |-> [i \in 1..Cardinality(LI) |->
                         [s.cartItems[Nth(LI, i)] EXCEPT !.product = Renum(LP, @)]],
        cart |-> RenumSeq(LI, s.cart),
        orders |-> [i \in 1..Cardinality(LO) |->
                      [s.orders[Nth(LO, i)] EXCEPT !.customer = Renum(LC, @),
                                                   !.items = RenumSeq(LI, @)]],
        customers |-> [i \in 1..Cardinality(LC) |->
                         [s.customers[Nth(LC, i)] EXCEPT !.history = RenumSeq(LO, @)]],
        ledger |-> RenumSeq(LO, s.ledger),
        clock |-> s.clock]

\* The model's bounds on the lists and on the clock.
InBounds(s) ==
    /\ Len(s.catalog) <= MaxCatalog
    /\ Len(s.cart) <= MaxCartLines
    /\ Len(s.ledger) <= MaxOrders
    /\ s.clock <= MaxClock
    /\ \A i \in DOMAIN s.cartItems : s.cartItems[i].quantity <= MaxLineQty
    /\ \A i \in DOMAIN s.products : s.products[i].stock <= MaxStock

\* The handler's result s becomes the next state, within the model's bounds.
Commit(s) ==
    \E c \in {collect(s)} :
    /\ InBounds(c)
    /\ products' = c.products
    /\ catalog' = c.catalog
    /\ table' = c.table
    /\ cartItems' = c.cartItems
    /\ cart' = c.cart
    /\ orders' = c.orders
    /\ customers' = c.customers
    /\ ledger' = c.ledger
    /\ clock' = c.clock


\* datetime.datetime.now(): successive readings increase.
tick(s) == [s EXCEPT !.clock = @ + 1]

\* Product.name / Product.price / Product.stock setters, restock, purchase on
\* object pid
set_name(s, pid, value) == [s EXCEPT !.products[pid].name = value]
set_price(s, pid, value) == [s EXCEPT !.products[pid].price = value]
set_stock(s, pid, value) == [s EXCEPT !.products[pid].stock = value]
restock(s, pid, amount) == [s EXCEPT !.products[pid].stock = @ + amount]
purchase(s, pid, amount) == [s EXCEPT !.products[pid].stock = @ - amount]

----------------------------------------------------------------------------
(* CartItem, ShoppingCart *)

CartItem(product, quantity) == [product |-> product, quantity |-> quantity]

\* a subtotal that forgets the quantity
subtotal_of_one(s, ci) == discount_price(s.products[s.cartItems[ci].product])

subtotal(s, ci) ==
    discount_price(s.products[s.cartItems[ci].product]) * s.cartItems[ci].quantity

add_item_raises(quantity) == quantity <= 0

\* the search with "is" in place of "==": only the very same object is found
existing_same_object(s, pid) ==
    LET hits == {i \in 1..Len(s.cart) : s.cartItems[s.cart[i]].product = pid}
    IN IF hits = {} THEN 0 ELSE CHOOSE i \in hits : \A j \in hits : i <= j

\* next(i for i in self._items if i.product == product): the position in the
\* cart of the first line with an equal product, 0 when there is none
existing(s, pid) ==
    LET hits == {i \in 1..Len(s.cart) :
                    Product_eq(s.products[s.cartItems[s.cart[i]].product],
                               s.products[pid])}
    IN IF hits = {} THEN 0 ELSE CHOOSE i \in hits : \A j \in hits : i <= j

add_item(s, pid, quantity) ==
    LET e == existing(s, pid) IN
    IF e # 0
    THEN [s EXCEPT !.cartItems[s.cart[e]].quantity = @ + quantity]
    ELSE [s EXCEPT !.cartItems = Append(@, CartItem(pid, quantity)),
                   !.cart = Append(@, Len(s.cartItems) + 1)]

\* the filter with "is not" in place of "!=": only lines of the very same
\* object go
remove_item_same_object(s, pid) ==
    LET keep(ci) == s.cartItems[ci].product # pid
    IN [s EXCEPT !.cart = SelectSeq(@, keep)]

remove_item(s, pid) ==
    LET keep(ci) == ~Product_eq(s.products[s.cartItems[ci].product],
                                s.products[pid])
    IN [s EXCEPT !.cart = SelectSeq(@, keep)]

clear(s) == [s EXCEPT !.cart = <<>>]

total(s) == SeqSum([i \in 1..Len(s.cart) |-> subtotal(s, s.cart[i])], Len(s.cart))

\* list(self._items): a new list of the same CartItem objects
all_items(s) == s.cart

----------------------------------------------------------------------------
(* Payment, Order, Customer *)

\* A sum of subtotals (1/10000) as a payment amount (1/1000000).
AsAmount(x) == x * 100

\* Payment.__init__ with date=None: the date is read from the clock.
Payment(amount, method, status, date) ==
    [amount |-> amount, method |-> method, status |-> status, date |-> date]

\* a fee of 3 percent instead of 2
calculate_fee_3_percent(base) == base * 3

\* calculate_fee on a number: float(base) * 0.02, as a payment amount
calculate_fee(base) == base * 2

process(payment) == [payment EXCEPT !.status = "Completed"]

\* Order.__init__: items is copied into a new list of the same CartItem objects
Order(customer, items, status, created_at, payment) ==
    [customer |-> customer, items |-> items, status |-> status,
     created_at |-> created_at, payment |-> payment]

total_amount(s, oid) ==
    LET its == s.orders[oid].items
    IN SeqSum([i \in 1..Len(its) |-> subtotal(s, its[i])], Len(its))

\* mark_paid that attaches the payment and leaves the order's status
mark_paid_keeps_status(s, oid, payment) ==
    [s EXCEPT !.orders[oid].payment = Some(process(payment))]

mark_paid(s, oid, payment) ==
    [s EXCEPT !.orders[oid].payment = Some(process(payment)),
              !.orders[oid].status = "Paid"]

Customer(full_name, contact) ==
    [full_name |-> full_name, contact |-> contact, history |-> <<>>]

add_order(s, cid, oid) == [s EXCEPT !.customers[cid].history = Append(@, oid)]

----------------------------------------------------------------------------
(* StoreManager *)

add_product(s, pid) == [s EXCEPT !.catalog = Append(@, pid)]

\* the check without its lower end
index_raises_above(s, index) == index >= Len(s.catalog)

index_raises(s, index) == index < 0 \/ index >= Len(s.catalog)

\* index counts from 0, as in Python
update_product(s, index, pid) == [s EXCEPT !.catalog[index + 1] = pid]

delete_product(s, index) ==
    [s EXCEPT !.catalog = SubSeq(@, 1, index) \o SubSeq(@, index + 2, Len(@))]

\* record_order that does not tell the customer
record_order_ledger_only(s, oid) == [s EXCEPT !.ledger = Append(@, oid)]

\* record_order that puts the order first
record_order_in_front(s, oid) ==
    add_order([s EXCEPT !.ledger = <<oid>> \o @], s.orders[oid].customer, oid)

record_order(s, oid) ==
    add_order([s EXCEPT !.ledger = Append(@, oid)], s.orders[oid].customer, oid)

\* the lines of the recorded orders, order by order
report_lines(s) ==
    LET RECURSIVE Go(_)
        Go(i) == IF i = 0 THEN <<>> ELSE Go(i - 1) \o s.orders[s.ledger[i]].items
    IN Go(Len(s.ledger))

\* by_category when a line replaces its category's entry
RECURSIVE by_category_last_line(_, _, _)
by_category_last_line(s, lines, acc) ==
    IF lines = <<>> THEN acc
    ELSE LET c == s.products[s.cartItems[Head(lines)].product].category
         IN by_category_last_line(s, Tail(lines),
                                  (c :> subtotal(s, Head(lines))) @@ acc)

\* the loop of sales_report: by_category[c] = by_category.get(c, 0.0) + subtotal
RECURSIVE by_category(_, _, _)
by_category(s, lines, acc) ==
    IF lines = <<>> THEN acc
    ELSE LET c == s.products[s.cartItems[Head(lines)].product].category
         IN by_category(s, Tail(lines),
                        (c :> Get(acc, c, 0) + subtotal(s, Head(lines))) @@ acc)

sales_report(s) ==
    [orders_count |-> Len(s.ledger),
     total_revenue |-> SeqSum([i \in 1..Len(s.ledger) |-> total_amount(s, s.ledger[i])],
                              Len(s.ledger)),
     by_category |-> by_category(s, report_lines(s), [c \in {} |-> 0])]

----------------------------------------------------------------------------
(* Dictionaries: to_dict / from_dict *)

\* datetime.isoformat() and datetime.fromisoformat(): the text of a timestamp
isoformat(t) == [iso |-> t]
fromisoformat(x) == x.iso

Product_to_dict(p) ==
    [type |-> p.cls, name |-> p.name, category |-> p.category,
     price |-> p.price, stock |-> p.stock, manufacturer |-> p.manufacturer]

\* the subclasses' to_dict: payload.update(...)
to_dict(p) ==
    CASE p.cls = "Electronics" ->
            [warranty_years |-> p.warranty_years, has_wifi |-> p.has_wifi]
                @@ Product_to_dict(p)
      [] p.cls = "Clothing" ->
            [size |-> p.size, material |-> p.material] @@ Product_to_dict(p)
      [] p.cls = "Furniture" ->
            [weight |-> p.weight, assembled |-> p.assembled] @@ Product_to_dict(p)

\* dict.get("type") of a record without the key is None, which is no class name
mapping == {"Electronics", "Clothing", "Furniture"}

Product_from_dict_raises(data) == Get(data, "type", "<None>") \notin mapping

\* an exception as the caller sees it: its class, and the text and the value
\* that make up str(ex)
Raised(exc, text, value) == [exc |-> exc, text |-> text, value |-> value]

\* the error without the value in its text
Product_from_dict_error_unnamed(data) ==
    Raised("ValueError", "Unknown product type", "")

\* ValueError(f"Unknown product type: {data.get('type')}"): a missing type
\* prints as None
Product_from_dict_error(data) ==
    Raised("ValueError", "Unknown product type: ", Get(data, "type", "None"))

_from_dict_payload(cls, data) ==
    CASE cls = "Electronics" ->
            Electronics(Get(data, "name", ""), Get(data, "category", "Electronics"),
                        Get(data, "price", 0), Get(data, "stock", 0),
                        Get(data, "manufacturer", ""),
                        Get(data, "warranty_years", 1), Get(data, "has_wifi", FALSE))
      [] cls = "Clothing" ->
            Clothing(Get(data, "name", ""), Get(data, "category", "Clothing"),
                     Get(data, "price", 0), Get(data, "stock", 0),
                     Get(data, "manufacturer", ""),
                     Get(data, "size", "M"), Get(data, "material", "Cotton"))
      [] cls = "Furniture" ->
            Furniture(Get(data, "name", ""), Get(data, "category", "Furniture"),
                      Get(data, "price", 0), Get(data, "stock", 0),
                      Get(data, "manufacturer", ""),
                      Get(data, "weight", 0), Get(data, "assembled", FALSE))

Product_from_dict(data) == _from_dict_payload(data.type, data)

Payment_to_dict(payment) ==
    [amount |-> payment.amount, method |-> payment.method,
     status |-> payment.status, date |-> isoformat(payment.date)]

\* Payment.from_dict that does not pass the date on
Payment_from_dict_dated_now(data, now) ==
    Payment(Get(data, "amount", 0), Get(data, "method", "Card"),
            Get(data, "status", "Pending"), now)

\* Payment.from_dict that leaves the status at the constructor's default
Payment_from_dict_pending(data, now) ==
    Payment(Get(data, "amount", 0), Get(data, "method", "Card"), "Pending",
            IF "date" \in DOMAIN data THEN fromisoformat(data.date) ELSE now)

\* now is what the clock would give a Payment built without a date
Payment_from_dict(data, now) ==
    Payment(Get(data, "amount", 0), Get(data, "method", "Card"),
            Get(data, "status", "Pending"),
            IF "date" \in DOMAIN data THEN fromisoformat(data.date) ELSE now)

RECURSIVE Order_to_dict(_, _, _), Customer_to_dict(_, _, _)

\* to_dict that writes the customer with its history
Order_to_dict_with_history(s, oid, include_customer) ==
    LET o == s.orders[oid]
        c == s.customers[o.customer]
    IN [customer |-> IF include_customer
                     THEN Customer_to_dict(s, o.customer, TRUE)
                     ELSE [full_name |-> c.full_name, contact |-> c.contact],
        items |-> [i \in 1..Len(o.items) |->
                     [product |-> to_dict(s.products[s.cartItems[o.items[i]].product]),
                      quantity |-> s.cartItems[o.items[i]].quantity]],
        status |-> o.status,
        created_at |-> isoformat(o.created_at),
        payment |-> IF o.payment # None
                    THEN Some(Payment_to_dict(o.payment[1])) ELSE None]

Order_to_dict(s, oid, include_customer) ==
    LET o == s.orders[oid]
        c == s.customers[o.customer]
    IN [customer |-> IF include_customer
                     THEN Customer_to_dict(s, o.customer, FALSE)
                     ELSE [full_name |-> c.full_name, contact |-> c.contact],
        items |-> [i \in 1..Len(o.items) |->
                     [product |-> to_dict(s.products[s.cartItems[o.items[i]].product]),
                      quantity |-> s.cartItems[o.items[i]].quantity]],
        status |-> o.status,
        created_at |-> isoformat(o.created_at),
        payment |-> IF o.payment # None
                    THEN Some(Payment_to_dict(o.payment[1])) ELSE None]

Customer_to_dict(s, cid, include_history) ==
    LET c == s.customers[cid]
        data == [full_name |-> c.full_name, contact |-> c.contact]
    IN IF include_history
       THEN [history |-> [i \in 1..Len(c.history) |->
                            Order_to_dict(s, c.history[i], FALSE)]] @@ data
       ELSE data

StoreManager_to_dict(s) ==
    [products |-> [i \in 1..Len(s.catalog) |-> to_dict(s.products[s.catalog[i]])],
     orders |-> [i \in 1..Len(s.ledger) |-> Order_to_dict(s, s.ledger[i], TRUE)]]

\* KeyError or an unknown product type somewhere in an order record
RECURSIVE Order_from_dict_raises(_)
Order_from_dict_raises(data) ==
    \/ "customer" \notin DOMAIN data
    \/ "created_at" \notin DOMAIN data
    \/ \E i \in 1..Len(Get(data.customer, "history", <<>>)) :
          Order_from_dict_raises(data.customer.history[i])
    \/ \E i \in 1..Len(Get(data, "items", <<>>)) :
          \/ "product" \notin DOMAIN data.items[i]
          \/ "quantity" \notin DOMAIN data.items[i]
          \/ Product_from_dict_raises(data.items[i].product)

\* the items of an order record, as new Product and CartItem objects
RECURSIVE items_from_dict(_, _, _)
items_from_dict(s, its, acc) ==
    IF its = <<>> THEN [s |-> s, items |-> acc]
    ELSE LET pid == Len(s.products) + 1
             ci == Len(s.cartItems) + 1
             s1 == [s EXCEPT !.products = Append(@, Product_from_dict(Head(its).product)),
                             !.cartItems = Append(@, CartItem(pid, Head(its).quantity))]
         IN items_from_dict(s1, Tail(its), Append(acc, ci))

\* Order.from_dict and Customer.from_dict: the graph with the new objects, and
\* the new object's position
RECURSIVE Order_from_dict(_, _), Customer_from_dict(_, _), history_from_dict(_, _, _)

Customer_from_dict(s, data) ==
    LET cid == Len(s.customers) + 1
        s1 == [s EXCEPT !.customers =
                  Append(@, Customer(Get(data, "full_name", ""), Get(data, "contact", "")))]
    IN [s |-> history_from_dict(s1, cid, Get(data, "history", <<>>)), id |-> cid]

history_from_dict(s, cid, hist) ==
    IF hist = <<>> THEN s
    ELSE LET r == Order_from_dict(s, Head(hist))
         IN history_from_dict(add_order(r.s, cid, r.id), cid, Tail(hist))

Order_from_dict(s, data) ==
    LET c == Customer_from_dict(s, data.customer)
        it == items_from_dict(c.s, Get(data, "items", <<>>), <<>>)
        pdata == Get(data, "payment", None)
        reads == pdata # None /\ "date" \notin DOMAIN pdata[1]
        payment == IF pdata # None
                   THEN Some(Payment_from_dict(pdata[1], it.s.clock)) ELSE None
        s1 == IF reads THEN tick(it.s) ELSE it.s
        oid == Len(s1.orders) + 1
    IN [s |-> [s1 EXCEPT !.orders =
                  Append(@, Order(c.id, it.items, Get(data, "status", "New"),
                                  fromisoformat(data.created_at), payment))],
        id |-> oid]

StoreManager_from_dict_raises(data) ==
    \/ \E i \in 1..Len(Get(data, "products", <<>>)) :
          Product_from_dict_raises(data.products[i])
    \/ \E i \in 1..Len(Get(data, "orders", <<>>)) :
          Order_from_dict_raises(data.orders[i])

\* f[1] \o ... \o f[n]
Flat(f, n) ==
    LET RECURSIVE Go(_)
        Go(i) == IF i = 0 THEN <<>> ELSE Go(i - 1) \o f[i]
    IN Go(n)

\* The exceptions Order.from_dict would raise on data, in the order in which
\* the decoding meets their causes: the first one is the one raised.
RECURSIVE Order_from_dict_errors(_)
Order_from_dict_errors(data) ==
    IF "customer" \notin DOMAIN data THEN << Raised("KeyError", "", "customer") >>
    ELSE LET hist == Get(data.customer, "history", <<>>)
             its == Get(data, "items", <<>>)
             item(it) ==
                 IF "product" \notin DOMAIN it
                 THEN << Raised("KeyError", "", "product") >>
                 ELSE IF Product_from_dict_raises(it.product)
                 THEN << Product_from_dict_error(it.product) >>
                 ELSE IF "quantity" \notin DOMAIN it
                 THEN << Raised("KeyError", "", "quantity") >>
                 ELSE <<>>
         IN Flat([i \in 1..Len(hist) |-> Order_from_dict_errors(hist[i])], Len(hist))
            \o Flat([i \in 1..Len(its) |-> item(its[i])], Len(its))
            \o (IF "created_at" \notin DOMAIN data
                THEN << Raised("KeyError", "", "created_at") >> ELSE <<>>)

StoreManager_from_dict_errors(data) ==
    LET ps == Get(data, "products", <<>>)
        os == Get(data, "orders", <<>>)
    IN Flat([i \in 1..Len(ps) |->
               IF Product_from_dict_raises(ps[i])
               THEN << Product_from_dict_error(ps[i]) >> ELSE <<>>], Len(ps))
       \o Flat([i \in 1..Len(os) |-> Order_from_dict_errors(os[i])], Len(os))

RECURSIVE products_from_dict(_, _), orders_from_dict(_, _)

products_from_dict(s, ps) ==
    IF ps = <<>> THEN s
    ELSE LET pid == Len(s.products) + 1
             s1 == [s EXCEPT !.products = Append(@, Product_from_dict(Head(ps)))]
         IN products_from_dict(add_product(s1, pid), Tail(ps))

orders_from_dict(s, os) ==
    IF os = <<>> THEN s
    ELSE LET r == Order_from_dict(s, Head(os))
         IN orders_from_dict(record_order(r.s, r.id), Tail(os))

\* from_dict that records the orders in the ledger the caller held
StoreManager_from_dict_keeps_ledger(s, data) ==
    LET s0 == [s EXCEPT !.catalog = <<>>]
    IN orders_from_dict(products_from_dict(s0, Get(data, "products", <<>>)),
                        Get(data, "orders", <<>>))

\* StoreManager.from_dict: s holds the objects the caller keeps; the new
\* manager's catalog and ledger start empty
StoreManager_from_dict(s, data) ==
    LET s0 == [s EXCEPT !.catalog = <<>>, !.ledger = <<>>]
    IN orders_from_dict(products_from_dict(s0, Get(data, "products", <<>>)),
                        Get(data, "orders", <<>>))

----------------------------------------------------------------------------
(* Storage: the text (JSON) and the binary (pickle) codec *)

\* json.dump / json.load and pickle.dump / pickle.load of a dictionary of
\* strings, numbers, booleans, None, lists and dictionaries keyed by strings:
\* the file holds the dictionary in the codec's encoding.
json_dump(data) == [json |-> data]
json_load_raises(f) == "json" \notin DOMAIN f
json_load(f) == f.json
pickle_dump(data) == [pickle |-> data]
pickle_load_raises(f) == "pickle" \notin DOMAIN f
pickle_load(f) == f.pickle

save_json(s) == json_dump(StoreManager_to_dict(s))
save_binary(s) == pickle_dump(StoreManager_to_dict(s))

----------------------------------------------------------------------------
(* Storage: the markup (XML) codec *)

\* The text of an element.  kind "s" is a string as it stands, "i" the
\* digits of an int, "f" the digits of a float, "m" an amount with two decimals.
Text(kind, v) == [k |-> kind, v |-> v]

\* str(v) of the value under key k of a product dictionary
str(k, v) ==
    CASE k \in {"price", "weight"} -> Text("f", v)
      [] k \in {"stock", "warranty_years"} -> Text("i", v)
      [] k \in {"has_wifi", "assembled"} -> Text("s", IF v THEN "True" ELSE "False")
      [] OTHER -> Text("s", v)

\* float(text), int(text), text.lower()
float_raises(text) == text.k \notin {"f", "i"}
int_raises(text) == text.k # "i"
lower_unchanged(text) == text.v

lower(text) ==
    CASE text.v = "True" -> "true"
      [] text.v = "False" -> "false"
      [] OTHER -> text.v

\* ElementTree writes an element whose text is "" as an empty element, and
\* parses an empty element with text None.
written(text) == IF text.k = "s" /\ text.v = "" THEN None ELSE Some(text)

\* child.text or "" ; findtext(path, "") of an element that is present
text_or_empty(t) == IF t = None THEN Text("s", "") ELSE t[1]

\* the keys of p.to_dict() in insertion order, without "type"
items_keys(p) ==
    <<"name", "category", "price", "stock", "manufacturer">> \o
    CASE p.cls = "Electronics" -> <<"warranty_years", "has_wifi">>
      [] p.cls = "Clothing" -> <<"size", "material">>
      [] p.cls = "Furniture" -> <<"weight", "assembled">>

save_xml_product(p) ==
    LET keys == items_keys(p)
    IN [type |-> p.cls,
        children |-> [i \in 1..Len(keys) |->
                        [tag |-> keys[i], text |-> written(str(keys[i], to_dict(p)[keys[i]]))]]]

save_xml_order(s, oid) ==
    LET o == s.orders[oid] IN
    [status |-> o.status,
     customer |-> written(Text("s", s.customers[o.customer].full_name)),
     items |-> [i \in 1..Len(o.items) |->
                  [name |-> written(Text("s", s.products[s.cartItems[o.items[i]].product].name)),
                   quantity |-> written(Text("i", s.cartItems[o.items[i]].quantity)),
                   subtotal |-> written(Text("m", subtotal(s, o.items[i])))]]]

save_xml(s) ==
    [products |-> [i \in 1..Len(s.catalog) |-> save_xml_product(s.products[s.catalog[i]])],
     orders |-> [i \in 1..Len(s.ledger) |-> save_xml_order(s, s.ledger[i])]]

\* the cast load_xml applies to the text of a child element, by its tag
cast_raises(tag, text) ==
    \/ tag \in {"price", "weight"} /\ float_raises(text)
    \/ tag \in {"stock", "warranty_years"} /\ int_raises(text)

cast(tag, text) ==
    CASE tag \in {"price", "weight"} -> text.v
      [] tag \in {"stock", "warranty_years"} -> text.v
      [] tag \in {"assembled", "has_wifi"} -> lower(text) = "true"
      [] OTHER -> text.v

\* payload: the dictionary load_xml builds from one product element
RECURSIVE payload_of(_, _)
payload_of(children, acc) ==
    IF children = <<>> THEN acc
    ELSE LET ch == Head(children)
         IN payload_of(Tail(children),
                       (ch.tag :> cast(ch.tag, text_or_empty(ch.text))) @@ acc)

load_xml_payload(p_el) == payload_of(p_el.children, [type |-> Get(p_el, "type", "Product")])

load_xml_payload_raises(p_el) ==
    \E i \in 1..Len(p_el.children) :
        cast_raises(p_el.children[i].tag, text_or_empty(p_el.children[i].text))

\* the lookup that takes the last product of the name
load_xml_lookup_last(payloads, name) ==
    LET hits == {i \in 1..Len(payloads) : Get(payloads[i], "name", "<None>") = name}
    IN IF hits = {} THEN 0 ELSE CHOOSE i \in hits : \A j \in hits : i >= j

\* next(p for p in data["products"] if p.get("name") == name): 0 when none
load_xml_lookup(payloads, name) ==
    LET hits == {i \in 1..Len(payloads) : Get(payloads[i], "name", "<None>") = name}
    IN IF hits = {} THEN 0 ELSE CHOOSE i \in hits : \A j \in hits : i <= j

\* the item elements of an order that find a product of their name
load_xml_found(payloads, o_el) ==
    SelectSeq(o_el.items,
              LAMBDA i_el : load_xml_lookup(payloads, text_or_empty(i_el.name).v) # 0)

load_xml_raises(f) ==
    \/ "xml" \notin DOMAIN f
    \/ \E i \in 1..Len(f.xml.products) : load_xml_payload_raises(f.xml.products[i])
    \/ LET payloads == [i \in 1..Len(f.xml.products) |-> load_xml_payload(f.xml.products[i])]
       IN \/ \E i \in 1..Len(payloads) : Product_from_dict_raises(payloads[i])
          \/ \E i \in 1..Len(f.xml.orders) : \E j \in 1..Len(f.xml.orders[i].items) :
                int_raises(text_or_empty(f.xml.orders[i].items[j].quantity))

\* the exceptions load_xml would raise on a parsed document, in the order in
\* which it meets their causes: the casts of the product elements, then per
\* item of an order int(quantity) and Product.from_dict of the product found,
\* then StoreManager.from_dict
load_xml_errors(f) ==
    LET ps == f.xml.products
        os == f.xml.orders
        payloads == [i \in 1..Len(ps) |-> load_xml_payload(ps[i])]
        child(ch) ==
            IF cast_raises(ch.tag, text_or_empty(ch.text))
            THEN << Raised("ValueError", "invalid literal: ", text_or_empty(ch.text).v) >>
            ELSE <<>>
        item(i_el) ==
            LET at == load_xml_lookup(payloads, text_or_empty(i_el.name).v) IN
            IF int_raises(text_or_empty(i_el.quantity))
            THEN << Raised("ValueError", "invalid literal: ",
                           text_or_empty(i_el.quantity).v) >>
            ELSE IF at # 0 /\ Product_from_dict_raises(payloads[at])
            THEN << Product_from_dict_error(payloads[at]) >>
            ELSE <<>>
        casts == Flat([i \in 1..Len(ps) |->
                         Flat([j \in 1..Len(ps[i].children) |-> child(ps[i].children[j])],
                              Len(ps[i].children))], Len(ps))
    IN IF casts # <<>> THEN casts
       ELSE Flat([i \in 1..Len(os) |->
                    Flat([j \in 1..Len(os[i].items) |-> item(os[i].items[j])],
                         Len(os[i].items))], Len(os))
            \o Flat([i \in 1..Len(ps) |->
                       IF Product_from_dict_raises(payloads[i])
                       THEN << Product_from_dict_error(payloads[i]) >> ELSE <<>>], Len(ps))

\* load_xml_order that does not read the status attribute
load_xml_order_status_new(payloads, o_el, now) ==
    LET found == load_xml_found(payloads, o_el)
    IN [customer |-> [full_name |-> text_or_empty(o_el.customer).v, contact |-> ""],
        items |-> [i \in 1..Len(found) |->
                     [product |-> to_dict(Product_from_dict(
                                    payloads[load_xml_lookup(payloads,
                                                text_or_empty(found[i].name).v)])),
                      quantity |-> text_or_empty(found[i].quantity).v]],
        status |-> "New",
        created_at |-> isoformat(now),
        payment |-> None]

\* order.to_dict() of the Order load_xml builds from one order element at
\* clock reading now: a customer without contact, the found items, no payment
load_xml_order(payloads, o_el, now) ==
    LET found == load_xml_found(payloads, o_el)
    IN [customer |-> [full_name |-> text_or_empty(o_el.customer).v, contact |-> ""],
        items |-> [i \in 1..Len(found) |->
                     [product |-> to_dict(Product_from_dict(
                                    payloads[load_xml_lookup(payloads,
                                                text_or_empty(found[i].name).v)])),
                      quantity |-> text_or_empty(found[i].quantity).v]],
        status |-> Get(o_el, "status", "New"),
        created_at |-> isoformat(now),
        payment |-> None]

\* data: the dictionary load_xml hands to StoreManager.from_dict; the i-th
\* order reads the clock at now + i - 1
load_xml_data(f, now) ==
    LET payloads == [i \in 1..Len(f.xml.products) |-> load_xml_payload(f.xml.products[i])]
    IN [products |-> payloads,
        orders |-> [i \in 1..Len(f.xml.orders) |->
                      load_xml_order(payloads, f.xml.orders[i], now + i - 1)]]

xml_write(doc) == [xml |-> doc]

----------------------------------------------------------------------------
(* Main window: what its dialogs can return *)

\* A price unit stands for 150 of the sample data's currency units.
\* _default_products(): Laptop 1200.0, Jacket 150.0, Desk 300.0, with the
\* stocks 5, 20 and 10 cut to MaxStock.
SampleStock(n) == IF n > MaxStock THEN MaxStock ELSE n

default_products ==
    << Electronics("Laptop", "Electronics", 8, SampleStock(5), "TechCorp", 2, TRUE),
       Clothing("Jacket", "Clothing", 1, SampleStock(20), "Warm&Co", "L", "Wool"),
       Furniture("Desk", "Furniture", 2, SampleStock(10), "Furni", 55, FALSE) >>

\* The filled-in forms of ProductDialog the model tries: a desk equal (same
\* price and name) to the sample desk, a new scarf, and a form with no name.
ProductForms ==
    { [name |-> "Desk", category |-> "Furniture", price |-> 2, stock |-> 1,
       mfr |-> "", warranty |-> 0, wifi |-> FALSE, size |-> "XS",
       material |-> "", weight |-> 10, assembled |-> TRUE],
      [name |-> "Scarf", category |-> "Clothing", price |-> 1, stock |-> 1,
       mfr |-> "Knit", warranty |-> 0, wifi |-> FALSE, size |-> "M",
       material |-> "", weight |-> 0, assembled |-> FALSE],
      [name |-> "", category |-> "Electronics", price |-> 1, stock |-> 1,
       mfr |-> "", warranty |-> 1, wifi |-> TRUE, size |-> "XS",
       material |-> "", weight |-> 0, assembled |-> FALSE] }

build_product_raises(form) == form.name = ""

build_product(form) ==
    LET mfr == OrStr(form.mfr, "Unknown") IN
    CASE form.category = "Electronics" ->
            Electronics(form.name, form.category, form.price, form.stock, mfr,
                        form.warranty, form.wifi)
      [] form.category = "Clothing" ->
            Clothing(form.name, form.category, form.price, form.stock, mfr,
                     form.size, OrStr(form.material, "Cotton"))
      [] OTHER ->
            Furniture(form.name, form.category, form.price, form.stock, mfr,
                      form.weight, form.assembled)

\* The filled-in forms of CheckoutDialog the model tries.
CheckoutForms ==
    { [name |-> "Ann", contact |-> "ann@x", status |-> "New", card |-> TRUE],
      [name |-> "Ann", contact |-> "ann@x", status |-> "Paid", card |-> TRUE],
      [name |-> "", contact |-> "", status |-> "Shipped", card |-> FALSE] }

build_customer(form) == Customer(OrStr(form.name, "Guest"), form.contact)

payment_method(form) == IF form.card THEN "Card" ELSE "Cash"

initial_status(form) == form.status

\* The rows a selection can hold, in the order selectedRows() lists them.
Selections(n) ==
    {<<r>> : r \in 0..(n - 1)} \cup
    ({<<r1, r2>> : r1 \in 0..(n - 1), r2 \in 0..(n - 1)}
        \ {<<r, r>> : r \in 0..(n - 1)})

\* a handler's call, as last records it
\* edits counts the changes of catalog products so far
Call(op, ok, args) ==
    [op |-> op, ok |-> ok, args |-> args, flip |-> 1 - last.flip, edits |-> last.edits]

Edit(op, ok, args) == [Call(op, ok, args) EXCEPT !.edits = @ + 1]

----------------------------------------------------------------------------
(* Main window: handlers *)

\* MainWindow.__init__
Init ==
    /\ products = default_products
    /\ catalog = <<1, 2, 3>>
    /\ table = <<1, 2, 3>>
    /\ cartItems = <<>>
    /\ cart = <<>>
    /\ orders = <<>>
    /\ customers = <<>>
    /\ ledger = <<>>
    /\ clock = 0
    /\ files = [m \in {"json", "bin", "xml"} |-> None]
    /\ savedFrom = [m \in {"json", "bin", "xml"} |-> None]
    /\ last = [op |-> "init", ok |-> TRUE, args |-> <<>>, flip |-> 0, edits |-> 0]

\* The state after dlg.build_product() returned and both lists took the product.
on_add(s, form) ==
    LET pid == Len(s.products) + 1
        s1 == [s EXCEPT !.products = Append(@, build_product(form))]
        s2 == add_product(s1, pid)
    IN [s2 EXCEPT !.table = Append(@, pid)]

OnAdd ==
    \E accepted \in BOOLEAN, form \in ProductForms :
        LET ok == accepted /\ ~build_product_raises(form) IN
        \E s \in {IF ok THEN on_add(Cur, form) ELSE Cur} :
           /\ last.edits < MaxEdits
           /\ Commit(s)
           /\ last' = Edit("on_add", ok, [form |-> form])
           /\ UNCHANGED <<files, savedFrom>>

\* ProductTableModel.update_product
model_update_product(s, row, pid) ==
    IF 0 <= row /\ row < Len(s.table) THEN [s EXCEPT !.table[row + 1] = pid] ELSE s

\* ProductTableModel.remove_product
model_remove_product(s, row) ==
    IF 0 <= row /\ row < Len(s.table)
    THEN [s EXCEPT !.table = SubSeq(@, 1, row) \o SubSeq(@, row + 2, Len(@))]
    ELSE s

on_edit(s, row, form) ==
    LET pid == Len(s.products) + 1
        s1 == [s EXCEPT !.products = Append(@, build_product(form))]
    IN IF index_raises(s1, row) THEN s1
       ELSE model_update_product(update_product(s1, row, pid), row, pid)

OnEdit ==
    \E row \in 0..(Len(table) - 1), accepted \in BOOLEAN, form \in ProductForms :
        LET ok == accepted /\ ~build_product_raises(form) IN
        \E s \in {IF ok THEN on_edit(Cur, row, form) ELSE Cur} :
           /\ last.edits < MaxEdits
           /\ Commit(s)
           /\ last' = Edit("on_edit", ok, [row |-> row, form |-> form])
           /\ UNCHANGED <<files, savedFrom>>

on_delete(s, row) == model_remove_product(delete_product(s, row), row)

\* delete_product is not inside a try: the model offers only the rows for
\* which it does not raise.
OnDelete ==
    \E row \in 0..(Len(table) - 1), yes \in BOOLEAN :
        /\ last.edits < MaxEdits
        /\ ~index_raises(Cur, row)
        /\ Commit(IF yes THEN on_delete(Cur, row) ELSE Cur)
        /\ last' = Edit("on_delete", yes, [row |-> row])
        /\ UNCHANGED <<files, savedFrom>>

RECURSIVE add_to_cart_loop(_, _, _)

\* a loop that ends at the first product that cannot be bought
add_to_cart_loop_stops(s, sel, qty) ==
    IF sel = <<>> \/ purchase_raises(s.products[s.table[Head(sel) + 1]], qty)
    THEN s
    ELSE LET pid == s.table[Head(sel) + 1]
         IN add_to_cart_loop(add_item(purchase(s, pid, qty), pid, qty), Tail(sel), qty)

\* the loop of on_add_to_cart over the selected rows
add_to_cart_loop(s, sel, qty) ==
    IF sel = <<>> THEN s
    ELSE LET pid == s.table[Head(sel) + 1]
             s1 == IF purchase_raises(s.products[pid], qty) THEN s
                   ELSE IF add_item_raises(qty) THEN purchase(s, pid, qty)
                   ELSE add_item(purchase(s, pid, qty), pid, qty)
         IN add_to_cart_loop(s1, Tail(sel), qty)

on_add_to_cart(s, sel, qty) == add_to_cart_loop(s, sel, qty)

OnAddToCart ==
    \E sel \in Selections(Len(table)), qty \in 1..MaxQty :
        \E s \in {on_add_to_cart(Cur, sel, qty)} :
           /\ Commit(s)
           /\ last' = Call("on_add_to_cart", TRUE, [sel |-> sel, qty |-> qty])
           /\ UNCHANGED <<files, savedFrom>>

\* a clearing that returns the units of every line to its product's stock
on_clear_cart_restocks(s) ==
    LET units(pid) ==
            SeqSum([i \in 1..Len(s.cart) |->
                       IF s.cartItems[s.cart[i]].product = pid
                       THEN s.cartItems[s.cart[i]].quantity ELSE 0],
                   Len(s.cart))
    IN clear([s EXCEPT !.products =
                 [pid \in DOMAIN s.products |->
                     [s.products[pid] EXCEPT !.stock = @ + units(pid)]]])

on_clear_cart(s) == clear(s)

OnClearCart ==
    /\ Commit(on_clear_cart(Cur))
    /\ last' = Call("on_clear_cart", TRUE, <<>>)
    /\ UNCHANGED <<files, savedFrom>>

\* on_checkout once the dialog was accepted on a non-empty cart, in two
\* parts: the order, its payment and its recording for customer cid, and
\* around it the new customer and the clearing of the cart.  Order and
\* Payment each read the clock for their timestamp.
checkout(s, cid, form) ==
    LET oid == Len(s.orders) + 1
        s2 == tick([s EXCEPT !.orders =
                      Append(@, Order(cid, all_items(s), initial_status(form),
                                      s.clock, None))])
        payment == Payment(AsAmount(total_amount(s2, oid)), payment_method(form),
                           "Completed", s2.clock)
        s3 == tick(s2)
        fee == calculate_fee(total_amount(s3, oid))
        paid == [payment EXCEPT !.amount = @ + fee]
    IN record_order(mark_paid(s3, oid, paid), oid)

on_checkout(s, form) ==
    LET cid == Len(s.customers) + 1
        s1 == [s EXCEPT !.customers = Append(@, build_customer(form))]
    IN clear(checkout(s1, cid, form))

OnCheckout ==
    \E accepted \in BOOLEAN, form \in CheckoutForms :
        LET ok == all_items(Cur) # <<>> /\ accepted IN
        \E s \in {IF ok THEN on_checkout(Cur, form) ELSE Cur} :
           /\ Commit(s)
           /\ last' = Call("on_checkout", ok, [form |-> form])
           /\ UNCHANGED <<files, savedFrom>>

\* The content of a manager, without object identity: what a codec has to
\* carry from save to load.
OrderValue(s, oid) ==
    LET o == s.orders[oid] IN
    [customer |-> [full_name |-> s.customers[o.customer].full_name,
                   contact |-> s.customers[o.customer].contact],
     items |-> [i \in 1..Len(o.items) |->
                  [product |-> s.products[s.cartItems[o.items[i]].product],
                   quantity |-> s.cartItems[o.items[i]].quantity]],
     status |-> o.status, created_at |-> o.created_at, payment |-> o.payment]

ManagerValue(s) ==
    [products |-> [i \in 1..Len(s.catalog) |-> s.products[s.catalog[i]]],
     orders |-> [i \in 1..Len(s.ledger) |-> OrderValue(s, s.ledger[i])]]

\* per recorded order, the content of its customer's history
HistoryValue(s) ==
    [i \in 1..Len(s.ledger) |->
        LET h == s.customers[s.orders[s.ledger[i]].customer].history
        IN [j \in 1..Len(h) |-> OrderValue(s, h[j])]]

Modes == {"json", "bin", "xml"}

on_save(s, mode) ==
    CASE mode = "json" -> save_json(s)
      [] mode = "bin" -> save_binary(s)
      [] OTHER -> xml_write(save_xml(s))

\* DATA_DIR holds at most MaxFiles files.
OnSave ==
    \E mode \in Modes :
        /\ files[mode] # None \/ Cardinality({m \in Modes : files[m] # None}) < MaxFiles
        /\ files' = [files EXCEPT ![mode] = Some(on_save(Cur, mode))]
        /\ savedFrom' = [savedFrom EXCEPT ![mode] =
                            Some([manager |-> ManagerValue(Cur),
                                  history |-> HistoryValue(Cur)])]
        /\ Commit(Cur)
        /\ last' = Call("on_save", TRUE, [mode |-> mode])

\* open() of a missing file, or the codec's load, raises
load_raises(mode, file) ==
    \/ file = None
    \/ mode = "json" /\ (json_load_raises(file[1])
                           \/ StoreManager_from_dict_raises(json_load(file[1])))
    \/ mode = "bin" /\ (pickle_load_raises(file[1])
                          \/ StoreManager_from_dict_raises(pickle_load(file[1])))
    \/ mode = "xml" /\ load_xml_raises(file[1])

load_json(s, f) == StoreManager_from_dict(s, json_load(f))
load_binary(s, f) == StoreManager_from_dict(s, pickle_load(f))
\* every order element builds an Order, which reads the clock
load_xml(s, f) ==
    StoreManager_from_dict([s EXCEPT !.clock = @ + Len(f.xml.orders)],
                           load_xml_data(f, s.clock))

\* the exception on_load catches when the load raises
load_error(mode, file) ==
    IF file = None THEN Raised("FileNotFoundError", "", mode)
    ELSE CASE mode = "json" ->
                IF json_load_raises(file[1]) THEN Raised("JSONDecodeError", "", "")
                ELSE Head(StoreManager_from_dict_errors(json_load(file[1])))
           [] mode = "bin" ->
                IF pickle_load_raises(file[1]) THEN Raised("UnpicklingError", "", "")
                ELSE Head(StoreManager_from_dict_errors(pickle_load(file[1])))
           [] OTHER ->
                IF "xml" \notin DOMAIN file[1] THEN Raised("ParseError", "", "")
                ELSE Head(load_xml_errors(file[1]))

\* on_load when the load did not raise: the new manager replaces the held
\* one, the table model is rebuilt from its products(), the cart is cleared
on_load(s, mode, f) ==
    LET m == CASE mode = "json" -> load_json(s, f)
               [] mode = "bin" -> load_binary(s, f)
               [] OTHER -> load_xml(s, f)
    IN clear([m EXCEPT !.table = m.catalog])

OnLoad ==
    \E mode \in Modes :
        LET ok == ~load_raises(mode, files[mode]) IN
        \E s \in {IF ok THEN on_load(Cur, mode, files[mode][1]) ELSE Cur} :
           /\ Commit(s)
           /\ last' = Call("on_load", ok,
                           [mode |-> mode,
                            error |-> IF ok THEN None
                                      ELSE Some(load_error(mode, files[mode]))])
           /\ UNCHANGED <<files, savedFrom>>

\* checkout for a Customer object the caller kept from an earlier order (the
\* main window builds a new Customer for every checkout)
Reorder ==
    \E cid \in 1..Len(customers), form \in CheckoutForms :
        /\ all_items(Cur) # <<>>
        /\ \E s \in {clear(checkout(Cur, cid, form))} : Commit(s)
        /\ last' = Call("reorder", TRUE, [customer |-> cid, form |-> form])
        /\ UNCHANGED <<files, savedFrom>>

\* on_add_to_cart of one selected row with the spin box at 1
OnAddOneToCart ==
    \E row \in 0..(Len(table) - 1) :
        \E s \in {on_add_to_cart(Cur, <<row>>, 1)} :
           /\ Commit(s)
           /\ last' = Call("on_add_to_cart", TRUE, [sel |-> <<row>>, qty |-> 1])
           /\ UNCHANGED <<files, savedFrom>>

----------------------------------------------------------------------------
(* Calls of the domain classes by a caller other than the main window *)

CartRows == 1..(IF Len(catalog) < MaxCartRows THEN Len(catalog) ELSE MaxCartRows)

\* cart.add_item(product, qty) for a catalog product, or for another Product
\* object equal to it (a copy: Product.from_dict(product.to_dict())); the
\* main window calls it only after product.purchase(qty), with qty from the
\* spin box
AddItem ==
    \E i \in CartRows, qty \in -1..MaxQty :
      \E copy \in IF qty > 0 THEN BOOLEAN ELSE {FALSE} :
        LET ok == ~add_item_raises(qty)
            pid == Len(products) + 1
            s1 == [Cur EXCEPT !.products =
                      Append(@, Product_from_dict(to_dict(products[catalog[i]])))]
        IN
        \E s \in {IF ~ok THEN Cur
                  ELSE IF copy THEN add_item(s1, pid, qty)
                  ELSE add_item(Cur, catalog[i], qty)} :
           /\ Commit(s)
           /\ last' = Call("add_item", ok, [product |-> i, copy |-> copy, qty |-> qty])
           /\ UNCHANGED <<files, savedFrom>>

RemoveItem ==
    \E i \in CartRows :
        /\ Commit(remove_item(Cur, catalog[i]))
        /\ last' = Call("remove_item", TRUE, [product |-> i])
        /\ UNCHANGED <<files, savedFrom>>

Clear ==
    /\ Commit(clear(Cur))
    /\ last' = Call("clear", TRUE, <<>>)
    /\ UNCHANGED <<files, savedFrom>>

\* order = Order(Customer("Guest", ""), cart.all_items()), with the default
\* status and no payment, and manager.record_order(order); the cart is left
\* to the caller
PlaceOrder ==
    /\ all_items(Cur) # <<>>
    /\ Len(ledger) < MaxHeld
    /\ LET cid == Len(customers) + 1
           oid == Len(orders) + 1
           s1 == [Cur EXCEPT !.customers = Append(@, Customer("Guest", ""))]
           s2 == tick([s1 EXCEPT !.orders =
                         Append(@, Order(cid, all_items(s1), "New", s1.clock, None))])
       IN \E s \in {record_order(s2, oid)} : Commit(s)
    /\ last' = Call("place_order", TRUE, <<>>)
    /\ UNCHANGED <<files, savedFrom>>

\* product.price = value on a catalog product
SetPrice ==
    \E i \in 1..Len(catalog), value \in {-1, 3} :
        LET ok == ~price_setter_raises(value) IN
        /\ last.edits < MaxEdits
        /\ Commit(IF ok THEN set_price(Cur, catalog[i], value) ELSE Cur)
        /\ last' = Edit("set_price", ok, [product |-> i, value |-> value])
        /\ UNCHANGED <<files, savedFrom>>

\* product.name = value on a catalog product
SetName ==
    \E i \in 1..Len(catalog), value \in {"", "Scarf"} :
        LET ok == ~name_setter_raises(value) IN
        /\ last.edits < MaxEdits
        /\ Commit(IF ok THEN set_name(Cur, catalog[i], value) ELSE Cur)
        /\ last' = Edit("set_name", ok, [product |-> i, value |-> value])
        /\ UNCHANGED <<files, savedFrom>>

\* product.restock(amount) on a catalog product
Restock ==
    \E i \in 1..Len(catalog), amount \in 0..1 :
        LET ok == ~restock_raises(amount) IN
        /\ last.edits < MaxEdits
        /\ Commit(IF ok THEN restock(Cur, catalog[i], amount) ELSE Cur)
        /\ last' = Edit("restock", ok, [product |-> i, amount |-> amount])
        /\ UNCHANGED <<files, savedFrom>>

\* item.product.price = value on the product of a cart line, value being a
\* price some product has (never negative: the setter does not raise)
HeldSetPrice ==
    \E l \in 1..Len(cart), value \in {products[catalog[i]].price : i \in CartRows} :
        LET ok == ~price_setter_raises(value) IN
        /\ last.edits < MaxHeldEdits
        /\ Commit(IF ok THEN set_price(Cur, cartItems[cart[l]].product, value)
                  ELSE Cur)
        /\ last' = Edit("set_price", ok, [line |-> l, value |-> value])
        /\ UNCHANGED <<files, savedFrom>>

\* item.product.name = value on the product of a cart line, value being a
\* name some product has (never empty: the setter does not raise)
HeldSetName ==
    \E l \in 1..Len(cart), value \in {products[catalog[i]].name : i \in CartRows} :
        LET ok == ~name_setter_raises(value) IN
        /\ last.edits < MaxHeldEdits
        /\ Commit(IF ok THEN set_name(Cur, cartItems[cart[l]].product, value)
                  ELSE Cur)
        /\ last' = Edit("set_name", ok, [line |-> l, value |-> value])
        /\ UNCHANGED <<files, savedFrom>>

\* Calls on one Product by a caller that holds it, with valid and invalid
\* arguments, any number of times.

\* product.purchase(amount)
Purchase ==
    \E i \in 1..Len(catalog), amount \in -1..(MaxStock + 1) :
        LET ok == ~purchase_raises(products[catalog[i]], amount) IN
        /\ Commit(IF ok THEN purchase(Cur, catalog[i], amount) ELSE Cur)
        /\ last' = Call("purchase", ok, [product |-> i, amount |-> amount])
        /\ UNCHANGED <<files, savedFrom>>

\* product.stock = value
SetStock ==
    \E i \in 1..Len(catalog), value \in -1..MaxStock :
        LET ok == ~stock_setter_raises(value) IN
        /\ Commit(IF ok THEN set_stock(Cur, catalog[i], value) ELSE Cur)
        /\ last' = Call("set_stock", ok, [product |-> i, value |-> value])
        /\ UNCHANGED <<files, savedFrom>>

\* product.price = value, with the smallest price the setter takes
ProductSetPrice ==
    \E i \in 1..Len(catalog), value \in {-1, 0} :
        LET ok == ~price_setter_raises(value) IN
        /\ Commit(IF ok THEN set_price(Cur, catalog[i], value) ELSE Cur)
        /\ last' = Call("set_price", ok, [product |-> i, value |-> value])
        /\ UNCHANGED <<files, savedFrom>>

\* product.name = value
ProductSetName ==
    \E i \in 1..Len(catalog), value \in {"", "Scarf"} :
        LET ok == ~name_setter_raises(value) IN
        /\ Commit(IF ok THEN set_name(Cur, catalog[i], value) ELSE Cur)
        /\ last' = Call("set_name", ok, [product |-> i, value |-> value])
        /\ UNCHANGED <<files, savedFrom>>

\* product.restock(amount)
ProductRestock ==
    \E i \in 1..Len(catalog), amount \in 0..1 :
        LET ok == ~restock_raises(amount) IN
        /\ Commit(IF ok THEN restock(Cur, catalog[i], amount) ELSE Cur)
        /\ last' = Call("restock", ok, [product |-> i, amount |-> amount])
        /\ UNCHANGED <<files, savedFrom>>

\* The file of a mode after a program other than the store rewrote it: one
\* product record, in the catalog or in an item of an order, has a type
\* that is no class of the hierarchy (None: no type at all), or the whole
\* content is no document of the codec.
Without(d, key) == [k \in DOMAIN d \ {key} |-> d[k]]

ForeignTypes == {Some("Appliance"), Some("Product"), None}

retype(rec, t) == IF t = None THEN Without(rec, "type") ELSE [rec EXCEPT !.type = t[1]]

\* the places of the product records of a document
Places(f) ==
    IF "xml" \in DOMAIN f
    THEN {<<"product", i, 0>> : i \in 1..Len(f.xml.products)}
    ELSE LET d == IF "json" \in DOMAIN f THEN f.json ELSE f.pickle
         IN {<<"product", i, 0>> : i \in 1..Len(d.products)} \cup
            UNION {{<<"item", o, j>> : j \in 1..Len(d.orders[o].items)} :
                      o \in 1..Len(d.orders)}

rewritten(f, place, t) ==
    LET in(d) == IF place[1] = "product"
                 THEN [d EXCEPT !.products[place[2]] = retype(@, t)]
                 ELSE [d EXCEPT !.orders[place[2]].items[place[3]].product = retype(@, t)]
    IN CASE "xml" \in DOMAIN f -> [xml |-> in(f.xml)]
         [] "json" \in DOMAIN f -> [json |-> in(f.json)]
         [] OTHER -> [pickle |-> in(f.pickle)]

\* savedFrom keeps what was changed in place of the manager's content.
Rewrite ==
    \E mode \in Modes :
        /\ files[mode] # None
        /\ "manager" \in DOMAIN savedFrom[mode][1]
        /\ \/ \E place \in Places(files[mode][1]), t \in ForeignTypes :
                /\ files' = [files EXCEPT ![mode] = Some(rewritten(files[mode][1], place, t))]
                /\ savedFrom' = [savedFrom EXCEPT ![mode] = Some([place |-> place, type |-> t])]
           \/ /\ files' = [files EXCEPT ![mode] = Some([garbage |-> TRUE])]
              /\ savedFrom' = [savedFrom EXCEPT ![mode] = Some([place |-> <<"content", 0, 0>>,
                                                               type |-> None])]
        /\ Commit(Cur)
        /\ last' = Call("rewrite", TRUE, [mode |-> mode])

\* Calls of StoreManager by a caller other than the main window.  The
\* products come from the forms with a name; catalog changes are counted.

\* manager.add_product(product)
AddProduct ==
    \E form \in {f \in ProductForms : ~build_product_raises(f)} :
        LET pid == Len(products) + 1
            s1 == [Cur EXCEPT !.products = Append(@, build_product(form))]
        IN /\ last.edits < MaxEdits
           /\ Commit(add_product(s1, pid))
           /\ last' = Edit("add_product", TRUE, [form |-> form])
           /\ UNCHANGED <<files, savedFrom>>

\* manager.update_product(index, product), with indexes around the catalog's
UpdateProduct ==
    \E index \in -1..Len(catalog), form \in {f \in ProductForms : ~build_product_raises(f)} :
        LET ok == ~index_raises(Cur, index)
            pid == Len(products) + 1
            s1 == [Cur EXCEPT !.products = Append(@, build_product(form))]
        IN /\ last.edits < MaxEdits
           /\ Commit(IF ok THEN update_product(s1, index, pid) ELSE Cur)
           /\ last' = Edit("update_product", ok, [index |-> index, form |-> form])
           /\ UNCHANGED <<files, savedFrom>>

\* manager.delete_product(index)
DeleteProduct ==
    \E index \in -1..Len(catalog) :
        LET ok == ~index_raises(Cur, index) IN
        /\ last.edits < MaxEdits
        /\ Commit(IF ok THEN delete_product(Cur, index) ELSE Cur)
        /\ last' = Edit("delete_product", ok, [index |-> index])
        /\ UNCHANGED <<files, savedFrom>>

\* manager.record_order(Order(Customer("Guest", ""), items)): items holds one
\* CartItem of quantity qty for each selected catalog product
RecordOrder ==
    \E sel \in Selections(Cardinality(CartRows)), qty \in 1..MaxLineQty :
        LET n == Len(cartItems)
            cid == Len(customers) + 1
            oid == Len(orders) + 1
            s1 == [Cur EXCEPT
                     !.customers = Append(@, Customer("Guest", "")),
                     !.cartItems = @ \o [i \in 1..Len(sel) |->
                                           CartItem(catalog[sel[i] + 1], qty)]]
            s2 == tick([s1 EXCEPT !.orders =
                          Append(@, Order(cid, [i \in 1..Len(sel) |-> n + i], "New",
                                          s1.clock, None))])
        IN /\ Commit(record_order(s2, oid))
           /\ last' = Call("record_order", TRUE, [sel |-> sel, qty |-> qty])
           /\ UNCHANGED <<files, savedFrom>>

\* manager.sales_report(): last keeps the dictionary it returns
SalesReport ==
    /\ Commit(Cur)
    /\ last' = Call("sales_report", TRUE, [report |-> sales_report(Cur)])
    /\ UNCHANGED <<files, savedFrom>>

\* The attributes of a StoreManager object: the methods the class defines
\* and the two lists __init__ sets.
StoreManager_attributes ==
    {"add_product", "update_product", "delete_product", "record_order",
     "sales_report", "products", "orders", "to_dict", "from_dict",
     "_products", "_orders"}

\* self.manager.<name>: AttributeError for a name the object does not have
getattr_raises(name) == name \notin StoreManager_attributes

\* ReportWindow.refresh with the date edits at start and end (as clock
\* readings) and the checked categories: it asks the manager for
\* sales_report_filtered(start, end, categories) inside a try, and shows the
\* report, or the error in a message box.  The report is None here: the
\* lookup of the method raises before anything is computed.
Refresh ==
    \E start \in 0..1, end \in 1..2, categories \in SUBSET {"Electronics", "Clothing"} :
        LET ok == ~getattr_raises("sales_report_filtered") IN
        /\ Commit(Cur)
        /\ last' = Call("refresh", ok,
                        [start |-> start, end |-> end, categories |-> categories,
                         report |-> None,
                         error |-> IF ok THEN None
                                   ELSE Some(Raised("AttributeError",
                                                    "'StoreManager' object has no attribute ",
                                                    "sales_report_filtered"))])
        /\ UNCHANGED <<files, savedFrom>>

\* Products a caller builds with the variants' constructors: both sides of
\* every threshold of the discount policies, two names, three prices.
ElectronicsSamples ==
    {Electronics(n, "Electronics", p, 1, "TechCorp", w, wifi) :
        n \in {"Desk", "Jacket"}, p \in 0..2, w \in {1, 2}, wifi \in BOOLEAN}

ClothingSamples ==
    {Clothing(n, "Clothing", p, 1, "Warm&Co", "L", m) :
        n \in {"Desk", "Jacket"}, p \in 0..2, m \in {"Wool", " WOOL ", "Vovna", "Cotton"}}

FurnitureSamples ==
    {Furniture(n, "Furniture", p, 1, "Furni", w, FALSE) :
        n \in {"Desk", "Jacket"}, p \in 0..2, w \in {50, 51}}

\* A manager of one product of each variant.
InitValues ==
    /\ \E e \in ElectronicsSamples, c \in ClothingSamples, f \in FurnitureSamples :
          products = <<e, c, f>>
    /\ catalog = <<1, 2, 3>>
    /\ table = <<1, 2, 3>>
    /\ cartItems = <<>>
    /\ cart = <<>>
    /\ orders = <<>>
    /\ customers = <<>>
    /\ ledger = <<>>
    /\ clock = 0
    /\ files = [m \in {"json", "bin", "xml"} |-> None]
    /\ savedFrom = [m \in {"json", "bin", "xml"} |-> None]
    /\ last = [op |-> "init", ok |-> TRUE, args |-> <<>>, flip |-> 0, edits |-> 0]

\* product.discount_price(): last keeps what it returns
DiscountPrice ==
    \E i \in 1..Len(catalog) :
        /\ Commit(Cur)
        /\ last' = Call("discount_price", TRUE,
                        [product |-> i, result |-> discount_price(products[catalog[i]])])
        /\ UNCHANGED <<files, savedFrom>>

\* a < b and a == b for every pair of catalog products: last keeps the results
Compare ==
    /\ Commit(Cur)
    /\ last' = Call("compare", TRUE,
                    [lt |-> [i \in 1..Len(catalog) |-> [j \in 1..Len(catalog) |->
                               Product_lt(products[catalog[i]], products[catalog[j]])]],
                     eq |-> [i \in 1..Len(catalog) |-> [j \in 1..Len(catalog) |->
                               Product_eq(products[catalog[i]], products[catalog[j]])]]])
    /\ UNCHANGED <<files, savedFrom>>

\* Arguments a caller can give a variant's constructor, or a record can carry:
\* valid ones, and an empty name, a negative price, a negative stock.
ConstructorArgs ==
    [cls : mapping, name : {"", "Scarf", "Desk"}, price : -1..1, stock : -1..1]

\* Electronics(...) / Clothing(...) / Furniture(...) with the other
\* parameters at their defaults: Product.__init__ stores what it is given
Product_init(a) ==
    CASE a.cls = "Electronics" ->
            Electronics(a.name, "Electronics", a.price, a.stock, "", 1, FALSE)
      [] a.cls = "Clothing" ->
            Clothing(a.name, "Clothing", a.price, a.stock, "", "M", "Cotton")
      [] a.cls = "Furniture" ->
            Furniture(a.name, "Furniture", a.price, a.stock, "", 0, FALSE)

\* manager.add_product(Variant(name=..., price=..., stock=...))
Construct ==
    \E a \in ConstructorArgs :
        LET pid == Len(products) + 1
            s1 == [Cur EXCEPT !.products = Append(@, Product_init(a))]
        IN /\ Commit(add_product(s1, pid))
           /\ last' = Call("construct", TRUE, a)
           /\ UNCHANGED <<files, savedFrom>>

\* manager.add_product(Product.from_dict(record)), the record of a known type
Decode ==
    \E a \in ConstructorArgs :
        LET data == [type |-> a.cls, name |-> a.name, price |-> a.price,
                     stock |-> a.stock]
            pid == Len(products) + 1
            s1 == [Cur EXCEPT !.products = Append(@, Product_from_dict(data))]
        IN /\ Commit(add_product(s1, pid))
           /\ last' = Call("from_dict", ~Product_from_dict_raises(data), a)
           /\ UNCHANGED <<files, savedFrom>>

\* ProductTableModel.sort: list.sort(key=key_func, reverse=reverse) on the
\* table model's own list.  The sort is stable, also when reversed: products
\* with equal keys keep their order.
model_sort(s, column, reverse) ==
    LET n == Len(s.table)
        last_col == 5
        col == IF column < 0 THEN 0 ELSE IF column > last_col THEN last_col ELSE column
        key_func(p) ==
            CASE col = 0 -> NameRank(p.name)
              [] col = 1 -> NameRank(p.category)
              [] col = 2 -> p.price
              [] col = 3 -> p.stock
              [] col = 4 -> NameRank(p.manufacturer)
              [] col = 5 -> discount_price(p)
        key(i) == key_func(s.products[s.table[i]])
        before(j, i) ==
            \/ IF reverse THEN key(j) > key(i) ELSE key(j) < key(i)
            \/ key(j) = key(i) /\ j < i
        place(i) == 1 + Cardinality({j \in 1..n : before(j, i)})
    IN IF n = 0 THEN s
       ELSE [s EXCEPT !.table =
                [k \in 1..n |-> s.table[CHOOSE i \in 1..n : place(i) = k]]]

\* a click on a column header of the product table
Sort ==
    \E column \in 0..5, reverse \in BOOLEAN :
        /\ Commit(model_sort(Cur, column, reverse))
        /\ last' = Call("sort", TRUE, [column |-> column, reverse |-> reverse])
        /\ UNCHANGED <<files, savedFrom>>

\* MainWindow.on_language_changed: a new ProductTableModel over
\* manager.products()
on_language_changed(s, lang) == [s EXCEPT !.table = s.catalog]

OnLanguageChanged ==
    \E lang \in {"en", "uk"} :
        /\ Commit(on_language_changed(Cur, lang))
        /\ last' = Call("on_language_changed", TRUE, [lang |-> lang])
        /\ UNCHANGED <<files, savedFrom>>

----------------------------------------------------------------------------
(* Specifications *)

\* The main window's shopping: filling the cart, clearing it, checking out.
Next ==
    \/ OnAddToCart
    \/ OnClearCart
    \/ OnCheckout

Spec == Init /\ [][Next]_vars

\* A caller of ShoppingCart and Order: it fills the cart, records an order
\* built from the cart, and goes on using the cart.
NextCart ==
    \/ AddItem
    \/ RemoveItem
    \/ Clear
    \/ PlaceOrder

SpecCart == Init /\ [][NextCart]_vars

\* The catalog changes once orders are recorded: through the main window's
\* product dialogs, and through the setters and restock of a Product.
CatalogChange ==
    \/ OnAdd
    \/ OnEdit
    \/ OnDelete
    \/ SetPrice
    \/ SetName
    \/ Restock

NextCatalog ==
    \/ OnAddOneToCart
    \/ OnCheckout
    \/ ledger # <<>> /\ CatalogChange

SpecCatalog == Init /\ [][NextCatalog]_vars

\* A session that shops, then saves and loads.
NoFile == \A m \in Modes : files[m] = None

Shopping ==
    \/ OnAddOneToCart
    \/ OnCheckout
    \/ Reorder
    \/ PlaceOrder

NextStore ==
    \/ NoFile /\ Shopping
    \/ OnSave
    \/ OnLoad

SpecStore == Init /\ [][NextStore]_vars

\* A caller of ShoppingCart that also changes the products the cart holds.
NextCartEdit ==
    \/ AddItem
    \/ RemoveItem
    \/ Clear
    \/ HeldSetPrice
    \/ HeldSetName

SpecCartEdit == Init /\ [][NextCartEdit]_vars

\* A caller of Product: setters, purchase and restock in any order.
NextProduct ==
    \/ Purchase
    \/ SetStock
    \/ ProductSetPrice
    \/ ProductSetName
    \/ ProductRestock

SpecProduct == Init /\ [][NextProduct]_vars

\* A session that shops, saves, and loads files, some of them rewritten by
\* another program in between.
NextForeign ==
    \/ NoFile /\ OnAddOneToCart
    \/ Len(ledger) < MaxHeld /\ OnCheckout
    \/ OnSave
    \/ Rewrite
    \/ OnLoad

SpecForeign == Init /\ [][NextForeign]_vars

\* A caller of StoreManager.
NextManager ==
    \/ AddProduct
    \/ UpdateProduct
    \/ DeleteProduct
    \/ RecordOrder
    \/ SalesReport

SpecManager == Init /\ [][NextManager]_vars

\* The report window over a manager whose ledger grows.
NextReport ==
    \/ RecordOrder
    \/ Refresh

SpecReport == Init /\ [][NextReport]_vars

\* The functions of a Product's value, applied to products of every variant.
NextValues ==
    \/ DiscountPrice
    \/ Compare

SpecValues == InitValues /\ [][NextValues]_vars

\* A session that changes the catalog and shops, then saves and loads in
\* the markup format.
NextXml ==
    \/ NoFile /\ OnAddOneToCart
    \/ NoFile /\ Len(ledger) < MaxHeld /\ OnCheckout
    \/ NoFile /\ OnAdd
    \/ NoFile /\ OnDelete
    \/ OnSave /\ last'.args.mode = "xml"
    \/ OnLoad /\ last'.args.mode = "xml"

SpecXml == Init /\ [][NextXml]_vars

\* A caller that builds products by constructor or from records and adds
\* them to the catalog.
NextConstruct ==
    \/ Construct
    \/ Decode

SpecConstruct == Init /\ [][NextConstruct]_vars

\* The product table of the main window: adding, editing, deleting, sorting
\* by a column, changing the language.
NextTable ==
    \/ OnAdd
    \/ OnEdit
    \/ OnDelete
    \/ Sort
    \/ OnLanguageChanged

SpecTable == Init /\ [][NextTable]_vars

\* Shopping in a catalog that can gain a product, also one equal (same price
\* and name) to a product it already has.
NextTwins ==
    \/ OnAddToCart
    \/ OnClearCart
    \/ OnAdd

SpecTwins == Init /\ [][NextTwins]_vars

\* The main window's shopping with saves and loads in the text and the
\* binary format; the cart is filled before the first save.
NextExact ==
    \/ NoFile /\ OnAddOneToCart
    \/ OnCheckout
    \/ OnSave /\ last'.args.mode # "xml"
    \/ OnLoad /\ last'.args.mode # "xml"

SpecExact == Init /\ [][NextExact]_vars

----------------------------------------------------------------------------
(* Properties *)

\* the lines of the cart and of the i-th recorded order, without object identity
CartValue ==
    [i \in 1..Len(cart) |->
        [product |-> products[cartItems[cart[i]].product],
         quantity |-> cartItems[cart[i]].quantity]]

LedgerValue == ManagerValue(Cur).orders

CatalogValue == ManagerValue(Cur).products

\* total_amount() of the i-th recorded order
RecordedTotal == [i \in 1..Len(ledger) |-> total_amount(Cur, ledger[i])]

\* the order the last checkout recorded
Recorded == orders[ledger[Len(ledger)]]

CheckedOut == last.op = "on_checkout" /\ last.ok

\* C1: once an order is recorded, no later change of the catalog (a product
\* added, replaced or deleted, a purchase or restock, a price or name set on
\* a catalog product) changes the order's total_amount().
C1_RecordedTotalKept ==
    [][last'.op \in {"on_add", "on_edit", "on_delete", "on_add_to_cart",
                     "set_price", "set_name", "restock"}
        => \A i \in 1..Len(ledger) : RecordedTotal'[i] = RecordedTotal[i]]_vars

\* C2: an order built from cart.all_items() keeps its lines, products and
\* quantities, whatever add_item, remove_item and clear later do to the cart.
C2_OrderKeepsLines ==
    [][last'.op \in {"add_item", "remove_item", "clear"}
        => \A i \in 1..Len(ledger) : LedgerValue'[i].items = LedgerValue[i].items]_vars

\* C7: the payment of the order a checkout recorded is the order's total plus
\* 2 percent of it, for either payment method.  The amount is in 1/1000000
\* and the total in 1/10000 of a price unit, so T * 1.02 is amount = T * 102.
C7_CheckoutFee ==
    CheckedOut =>
        /\ Recorded.payment # None
        /\ Recorded.payment[1].amount = total_amount(Cur, ledger[Len(ledger)]) * 102
        /\ Recorded.payment[1].method = payment_method(last.args.form)

C7_Witness ==
    /\ CheckedOut
    /\ ~last.args.form.card
    /\ Len(Recorded.items) = 2
    /\ Recorded.payment[1].amount > 0

\* C8: after a checkout the recorded order has status Paid and a payment
\* with status Completed, whichever initial status the dialog passed in.
C8_PaidAndCompleted ==
    CheckedOut =>
        /\ Recorded.status = "Paid"
        /\ Recorded.payment # None
        /\ Recorded.payment[1].status = "Completed"

C8_Witness ==
    /\ CheckedOut
    /\ initial_status(last.args.form) = "Shipped"
    /\ Recorded.status = "Paid"

\* C9: a checkout on a non-empty cart appends one order to the ledger, the
\* customer's history ends with that order, and the cart is empty; a
\* checkout on an empty cart changes neither ledger, catalog nor cart.
C9_CheckoutRecords ==
    [][last'.op = "on_checkout" =>
        /\ cart = <<>> => ~last'.ok
        /\ last'.ok =>
              /\ cart # <<>>
              /\ Len(ledger') = Len(ledger) + 1
              /\ SubSeq(LedgerValue', 1, Len(ledger)) = LedgerValue
              /\ LET oid == ledger'[Len(ledger')]
                     history == customers'[orders'[oid].customer].history
                 IN /\ history # <<>>
                    /\ history[Len(history)] = oid
                    /\ \A j \in 1..(Len(history) - 1) : history[j] # oid
              /\ LedgerValue'[Len(ledger')].items = CartValue
              /\ cart' = <<>>
        /\ ~last'.ok =>
              /\ LedgerValue' = LedgerValue
              /\ CatalogValue' = CatalogValue
              /\ CartValue' = CartValue]_vars

C9_Witness ==
    /\ CheckedOut
    /\ Len(ledger) = 2
    /\ cart = <<>>
    /\ customers[Recorded.customer].history = <<ledger[2]>>

\* C10: add_item(product, qty) fails and leaves the cart as it is when
\* qty <= 0; else the first line with an equal product grows by qty and no
\* line is added; else the line (product, qty) is appended and the other
\* lines stay.
C10_AddItem ==
    [][last'.op = "add_item" =>
        LET qty == last'.args.qty
            product == products[catalog[last'.args.product]]
            equal == {i \in 1..Len(cart) : Product_eq(CartValue[i].product, product)}
        IN /\ last'.ok = (qty > 0)
           /\ qty <= 0 => CartValue' = CartValue
           /\ qty > 0 /\ equal # {} =>
                 LET e == CHOOSE i \in equal : \A j \in equal : i <= j
                 IN CartValue' = [CartValue EXCEPT ![e].quantity = @ + qty]
           /\ qty > 0 /\ equal = {} =>
                 CartValue' = Append(CartValue, [product |-> product, quantity |-> qty])]_vars

\* a copy of a catalog product was added to a cart of two lines, and the line
\* of the equal product holds more than was added
C10_Witness ==
    /\ last.op = "add_item" /\ last.ok /\ last.args.copy
    /\ Len(cart) = 2
    /\ \E i \in 1..Len(cart) :
          /\ Product_eq(CartValue[i].product, products[catalog[last.args.product]])
          /\ CartValue[i].quantity > last.args.qty

\* the last call loaded the file of the given codec
Loaded(mode) == last.op = "on_load" /\ last.ok /\ last.args.mode = mode

\* what the manager held when the file of the given codec was written
Saved(mode) == savedFrom[mode][1]

\* C3: for the JSON and the binary codec, the loaded manager has the saved
\* one's content: the same products in the same order with every field, the
\* same orders in the same order with customer name and contact, item
\* products and quantities, status, created_at and payment, or no payment.
C3_RoundTrip ==
    \A mode \in {"json", "bin"} :
        Loaded(mode) => ManagerValue(Cur) = Saved(mode).manager

\* the binary codec loaded two orders, one with a payment and one without,
\* and a product that is sold out
C3_Witness ==
    /\ Loaded("bin")
    /\ Len(ledger) = 2
    /\ \E i, j \in 1..2 : LedgerValue[i].payment = None /\ LedgerValue[j].payment # None
    /\ \E i \in 1..Len(catalog) : CatalogValue[i].stock = 0

\* C4: after a JSON round trip the history of every order's customer lists
\* the orders it listed before the save, also for a customer of two orders.
C4_HistoryRoundTrip ==
    Loaded("json") => HistoryValue(Cur) = Saved("json").history

\* the names and quantities of an order's lines
NamesAndQuantities(order) ==
    [j \in 1..Len(order.items) |->
        [name |-> order.items[j].product.name, quantity |-> order.items[j].quantity]]

\* C5: after an XML round trip every saved order whose item names are those
\* of catalog products comes back with its customer's full name, its status
\* and its item names and quantities, with an empty contact, without
\* payment, and with the time of the load as created_at.
C5_XmlOrders ==
    Loaded("xml") =>
        /\ Len(ledger) = Len(Saved("xml").manager.orders)
        /\ \A i \in 1..Len(ledger) :
              LET before == Saved("xml").manager.orders[i]
                  after == LedgerValue[i]
                  names == {p.name : p \in Range(Saved("xml").manager.products)}
              IN (\A j \in 1..Len(before.items) : before.items[j].product.name \in names)
                 => /\ after.customer.full_name = before.customer.full_name
                    /\ after.status = before.status
                    /\ NamesAndQuantities(after) = NamesAndQuantities(before)
                    /\ after.customer.contact = ""
                    /\ after.payment = None
                    /\ after.created_at = clock - Len(ledger) + i - 1
                    /\ after.created_at > before.created_at

\* an order with contact, payment and two lines was saved and loaded
C5_Witness ==
    /\ Loaded("xml")
    /\ \E i \in 1..Len(ledger) :
          LET before == Saved("xml").manager.orders[i] IN
          /\ before.customer.contact # ""
          /\ before.payment # None
          /\ before.status = "Paid"
          /\ Len(before.items) = 2
          /\ Len(LedgerValue[i].items) = 2

\* C6: after an XML round trip the catalog holds the saved products: the same
\* variant and the same name, category, price, stock, manufacturer and
\* variant fields, the numbers as numbers and the booleans with their value.
C6_XmlCatalog ==
    Loaded("xml") => CatalogValue = Saved("xml").manager.products

\* the three variants were loaded, with a true and a false boolean field
C6_Witness ==
    /\ Loaded("xml")
    /\ {CatalogValue[i].cls : i \in 1..Len(catalog)} = mapping
    /\ \E i, j \in 1..Len(catalog) :
          /\ CatalogValue[i].cls = "Electronics" /\ CatalogValue[i].has_wifi
          /\ CatalogValue[j].cls = "Furniture" /\ ~CatalogValue[j].assembled

\* C11: in every reachable state of a cart, also when valid price and name
\* setter calls on the products it holds come between add_item, remove_item
\* and clear, no two cart lines hold equal products (equal price and equal
\* name).
C11_LinesDistinct ==
    \A i, j \in 1..Len(cart) :
        i # j => ~Product_eq(CartValue[i].product, CartValue[j].product)

\* the sum over lines (products by value) of discount_price() x quantity
LinesSum(lines) ==
    LET RECURSIVE Go(_)
        Go(n) == IF n = 0 THEN 0
                 ELSE Go(n - 1) + discount_price(lines[n].product) * lines[n].quantity
    IN Go(Len(lines))

\* C12: for every cart reached by add_item, remove_item and clear, total()
\* is the sum over its lines of product.discount_price() x quantity, and 0
\* for an empty cart; total_amount() of an order is the same sum over the
\* order's lines.
C12_Totals ==
    /\ total(Cur) = LinesSum(CartValue)
    /\ cart = <<>> => total(Cur) = 0
    /\ \A i \in 1..Len(ledger) :
          total_amount(Cur, ledger[i]) = LinesSum(LedgerValue[i].items)

\* a cart of two lines, one of them with quantity 2, next to a recorded order
C12_Witness ==
    /\ Len(cart) = 2
    /\ \E i \in 1..2 : CartValue[i].quantity = 2
    /\ total(Cur) > 0
    /\ ledger # <<>>
    /\ total_amount(Cur, ledger[1]) > 0

\* C13: purchase(amount) on a product with stock N fails and leaves the
\* stock at N when amount <= 0 or amount > N; when 1 <= amount <= N it
\* succeeds and the stock becomes N - amount; no other field of the product
\* (and no other product) changes.
C13_Purchase ==
    [][last'.op = "purchase" =>
        LET i == last'.args.product
            amount == last'.args.amount
            N == CatalogValue[i].stock
        IN IF amount <= 0 \/ amount > N
           THEN ~last'.ok /\ CatalogValue' = CatalogValue
           ELSE /\ last'.ok
                /\ CatalogValue' = [CatalogValue EXCEPT ![i].stock = N - amount]
    ]_vars

\* purchase(N) emptied a stock of N > 0, and purchase(N + 1) failed on it
C13_Witness ==
    /\ last.op = "purchase"
    /\ last.ok
    /\ last.args.amount = MaxStock
    /\ CatalogValue[last.args.product].stock = 0

\* every catalog product has a price >= 0, a stock >= 0 and a name
ProductsValid ==
    \A i \in 1..Len(catalog) :
        /\ CatalogValue[i].price >= 0
        /\ CatalogValue[i].stock >= 0
        /\ CatalogValue[i].name # ""

\* C14: from a product with price >= 0, stock >= 0 and a non-empty name,
\* after any sequence of name, price and stock setter calls, purchase and
\* restock with valid or invalid arguments, the product has price >= 0,
\* stock >= 0 and a non-empty name, and every call that fails leaves all
\* fields unchanged.
C14_ProductValid ==
    /\ []ProductsValid
    /\ [][~last'.ok => CatalogValue' = CatalogValue]_vars

\* a call with an invalid argument was made on a product whose every field a
\* valid call changed before
C14_Witness ==
    /\ ~last.ok
    /\ \E i \in 1..Len(catalog) :
          /\ CatalogValue[i].price = 0
          /\ CatalogValue[i].name = "Scarf"
          /\ CatalogValue[i].stock = 0

\* the file of the mode was rewritten with a foreign type in a product record
Foreign(mode) ==
    /\ savedFrom[mode] # None
    /\ "place" \in DOMAIN savedFrom[mode][1]
    /\ savedFrom[mode][1].place[1] # "content"

\* how the decoder prints the type of the rewritten record: a dictionary
\* without the key gives None, a product element without the attribute gives
\* the default "Product"
PrintedType(mode) ==
    LET t == savedFrom[mode][1].type
    IN IF t # None THEN t[1] ELSE IF mode = "xml" THEN "Product" ELSE "None"

\* C15: decoding a product record whose type is not Electronics, Clothing or
\* Furniture ("Appliance", "Product", or no type) fails with an error that
\* names the value and produces no product; every load of a document with
\* such a record, in the catalog or inside an order item, fails as a whole:
\* no manager is returned, the held one stays.
C15_ForeignType ==
    [][(last'.op = "on_load" /\ Foreign(last'.args.mode)) =>
        /\ ~last'.ok
        /\ last'.args.error =
              Some([exc |-> "ValueError", text |-> "Unknown product type: ",
                    value |-> PrintedType(last'.args.mode)])
        /\ ManagerValue(Cur)' = ManagerValue(Cur)
    ]_vars

\* a load failed on a file with the type "Appliance" inside an order item
C15_Witness ==
    /\ last.op = "on_load"
    /\ ~last.ok
    /\ Foreign(last.args.mode)
    /\ savedFrom[last.args.mode][1].place[1] = "item"
    /\ last.args.error[1].value = "Appliance"

\* what every codec carries of a manager's content: per product its class,
\* name, price and stock, per order its status, its customer's name and its
\* lines' names and quantities
Described(m) ==
    [products |-> [i \in 1..Len(m.products) |->
                     <<m.products[i].cls, m.products[i].name,
                       m.products[i].price, m.products[i].stock>>],
     orders |-> [i \in 1..Len(m.orders) |->
                   <<m.orders[i].status, m.orders[i].customer.full_name,
                     NamesAndQuantities(m.orders[i])>>]]

\* C16: when load_json, load_binary or load_xml fails (missing file,
\* malformed content, unknown variant), on_load leaves the held manager, the
\* product table model and the cart exactly as they were; when it succeeds,
\* the held manager is replaced by one whose catalog and ledger contain only
\* what the file describes, with nothing carried over from the previous
\* manager.
C16_LoadAllOrNothing ==
    [][last'.op = "on_load" =>
        IF ~last'.ok
        THEN UNCHANGED <<products, catalog, table, cartItems, cart, orders,
                         customers, ledger>>
        ELSE LET written_from == savedFrom[last'.args.mode][1].manager IN
             /\ Described(ManagerValue(Cur)') = Described(written_from)
             /\ last'.args.mode # "xml" => ManagerValue(Cur)' = written_from
             /\ table' = catalog'
    ]_vars

\* a load succeeded and left an empty ledger after a checkout had recorded
\* an order in the manager held before
C16_Witness ==
    /\ last.op = "on_load"
    /\ last.ok
    /\ ledger = <<>>
    /\ clock > 0

\* C17: update_product(index, p) and delete_product(index) with index < 0 or
\* index >= catalog length fail and leave the catalog unchanged; with a valid
\* index update_product replaces exactly the entry at that position and
\* delete_product removes exactly that entry, every other entry keeping its
\* relative order; neither changes the order ledger.
C17_IndexedChange ==
    [][last'.op \in {"update_product", "delete_product"} =>
        LET index == last'.args.index
            before == CatalogValue
            after == CatalogValue'
        IN /\ LedgerValue' = LedgerValue
           /\ IF index < 0 \/ index >= Len(before)
              THEN ~last'.ok /\ after = before
              ELSE /\ last'.ok
                   /\ IF last'.op = "update_product"
                      THEN /\ Len(after) = Len(before)
                           /\ after[index + 1] = build_product(last'.args.form)
                           /\ \A k \in 1..Len(before) :
                                 k # index + 1 => after[k] = before[k]
                      ELSE /\ Len(after) = Len(before) - 1
                           /\ \A k \in 1..Len(after) :
                                 after[k] = IF k <= index THEN before[k]
                                            ELSE before[k + 1]
    ]_vars

\* the middle entry of the catalog was deleted while the ledger held an order
C17_Witness ==
    /\ last.op = "delete_product"
    /\ last.ok
    /\ last.args.index = 1
    /\ Len(catalog) = 2
    /\ ledger # <<>>

\* C18: across add_product, update_product, delete_product, record_order and
\* sales_report on one manager, the ledger at an earlier point is a prefix
\* of the ledger at a later point, and only record_order extends it, by
\* exactly one order at the end.
C18_LedgerAppendOnly ==
    [][/\ Len(ledger') >= Len(ledger)
       /\ SubSeq(ledger', 1, Len(ledger)) = ledger
       /\ SubSeq(LedgerValue', 1, Len(ledger)) = LedgerValue
       /\ IF last'.op = "record_order"
          THEN Len(ledger') = Len(ledger) + 1
          ELSE Len(ledger') = Len(ledger)
    ]_vars

\* a second order was recorded after a change of the catalog
C18_Witness ==
    /\ last.op = "record_order"
    /\ Len(ledger) = 2
    /\ last.edits > 0

\* the lines of all recorded orders, by value
ReportedLines ==
    LET RECURSIVE Go(_)
        Go(i) == IF i = 0 THEN <<>> ELSE Go(i - 1) \o LedgerValue[i].items
    IN Go(Len(ledger))

\* C19: sales_report() returns orders_count equal to the number of ledger
\* orders, total_revenue equal to the sum of total_amount() over them, and
\* by_category mapping each category to the sum of the subtotals of every
\* line of every order whose product has that category, so that its values
\* sum to total_revenue; calling it changes neither catalog nor ledger.
C19_SalesReport ==
    [][last'.op = "sales_report" =>
        LET report == last'.args.report
            cats == {ReportedLines[k].product.category : k \in 1..Len(ReportedLines)}
            of(c) == SelectSeq(ReportedLines, LAMBDA l : l.product.category = c)
            values == [c \in cats |-> LinesSum(of(c))]
        IN /\ report.orders_count = Len(ledger)
           /\ report.total_revenue = SeqSum(RecordedTotal, Len(ledger))
           /\ DOMAIN report.by_category = cats
           /\ \A c \in cats : report.by_category[c] = values[c]
           /\ LinesSum(ReportedLines) = report.total_revenue
           /\ CatalogValue' = CatalogValue
           /\ LedgerValue' = LedgerValue
    ]_vars

\* a report over two orders with two lines of one category and a line of
\* another
C19_Witness ==
    /\ last.op = "sales_report"
    /\ last.args.report.orders_count = 2
    /\ Cardinality(DOMAIN last.args.report.by_category) = 2
    /\ Len(ReportedLines) = 3

\* C20: the filtered sales report the report window asks the manager for
\* counts exactly the ledger orders whose creation date lies in the
\* inclusive range [start, end] and, when categories is not empty, only the
\* lines whose product category is in it (an empty set applies no category
\* filter), and it leaves the ledger unchanged.
C20_FilteredReport ==
    [][last'.op = "refresh" =>
        LET a == last'.args
            inRange == {i \in 1..Len(ledger) :
                           a.start <= LedgerValue[i].created_at
                           /\ LedgerValue[i].created_at <= a.end}
            counted(l) == a.categories = {} \/ l.product.category \in a.categories
            amount == LET RECURSIVE Go(_)
                          Go(i) == IF i = 0 THEN 0
                                   ELSE Go(i - 1) +
                                        (IF i \in inRange
                                         THEN LinesSum(SelectSeq(LedgerValue[i].items, counted))
                                         ELSE 0)
                      IN Go(Len(ledger))
        IN /\ last'.ok
           /\ a.report # None
           /\ a.report[1].orders_count = Cardinality(inRange)
           /\ a.report[1].total_revenue = amount
           /\ LedgerValue' = LedgerValue
    ]_vars

\* C21: for every product with price >= 0, discount_price() is
\* price x (1 - (0.02 + r)) x w with r = 0.05 / 0.03 for Electronics with
\* warranty_years >= 2 / < 2, 0.04 / 0.02 for Clothing of wool (any case,
\* English or Ukrainian) / of another material, 0.06 / 0.03 for Furniture
\* with weight > 50 / <= 50, and w = 0.97 only for Electronics with Wi-Fi;
\* hence 0 <= discount_price() <= price.  In 1/10000 of a price unit.
C21_DiscountPrice ==
    last.op = "discount_price" =>
        LET p == CatalogValue[last.args.product]
            r == CASE p.cls = "Electronics" -> IF p.warranty_years >= 2 THEN 5 ELSE 3
                   [] p.cls = "Clothing" ->
                        IF p.material \in {"Wool", " WOOL ", "Vovna"} THEN 4 ELSE 2
                   [] p.cls = "Furniture" -> IF p.weight > 50 THEN 6 ELSE 3
            w == IF p.cls = "Electronics" /\ p.has_wifi THEN 97 ELSE 100
        IN /\ last.args.result = p.price * (100 - (2 + r)) * w
           /\ 0 <= last.args.result
           /\ last.args.result <= p.price * 10000

\* the discount price of an Electronics product with warranty 2 and Wi-Fi at
\* price 2
C21_Witness ==
    /\ last.op = "discount_price"
    /\ LET p == CatalogValue[last.args.product]
       IN p.cls = "Electronics" /\ p.warranty_years = 2 /\ p.has_wifi /\ p.price = 2
    /\ last.args.result = 2 * 93 * 97

\* C22: product comparison is a total order on (price, name): for all
\* products a, b, c exactly one of a < b, a == b, b < a holds, the order is
\* transitive, and a == b holds exactly when price and name are equal,
\* whatever the variant and the other fields.
C22_TotalOrder ==
    last.op = "compare" =>
        LET lt == last.args.lt
            eq == last.args.eq
            N == 1..Len(catalog)
            one(x, y, z) == (x /\ ~y /\ ~z) \/ (~x /\ y /\ ~z) \/ (~x /\ ~y /\ z)
        IN /\ \A i, j \in N : one(lt[i][j], eq[i][j], lt[j][i])
           /\ \A i, j, k \in N : lt[i][j] /\ lt[j][k] => lt[i][k]
           /\ \A i, j \in N :
                 eq[i][j] <=> /\ CatalogValue[i].price = CatalogValue[j].price
                              /\ CatalogValue[i].name = CatalogValue[j].name

\* products of two variants compared equal, and both less than a third that
\* has their price and another name
C22_Witness ==
    /\ last.op = "compare"
    /\ last.args.eq[1][2]
    /\ last.args.lt[1][3]
    /\ CatalogValue[1].price = CatalogValue[3].price

\* C23: on XML load each order item is resolved by name against the
\* products of the same document: the loaded order has one line per saved
\* item whose name is that of a product in the file, with a fresh copy of
\* the first such product and the saved quantity; so lines and quantities
\* are those of the saved order when its products were in the catalog at
\* save time.
C23_XmlItems ==
    Loaded("xml") =>
        \A i \in 1..Len(ledger) :
            LET file == Saved("xml").manager
                first(name) == CHOOSE k \in 1..Len(file.products) :
                                  /\ file.products[k].name = name
                                  /\ \A m \in 1..(k - 1) : file.products[m].name # name
                inFile(it) == \E k \in 1..Len(file.products) :
                                 file.products[k].name = it.product.name
                kept == SelectSeq(file.orders[i].items, inFile)
                after == LedgerValue[i].items
                lines == orders[ledger[i]].items
            IN /\ Len(after) = Len(kept)
               /\ \A j \in 1..Len(kept) :
                     /\ after[j].quantity = kept[j].quantity
                     /\ after[j].product = CatalogValue[first(kept[j].product.name)]
                     /\ cartItems[lines[j]].product \notin Range(catalog)
                     /\ \A h \in 1..Len(kept) :
                           h # j => cartItems[lines[h]].product # cartItems[lines[j]].product
               /\ (\A j \in 1..Len(file.orders[i].items) : inFile(file.orders[i].items[j]))
                     => NamesAndQuantities(LedgerValue[i])
                            = NamesAndQuantities(file.orders[i])

\* an order of two lines came back with one: the product of the other had
\* been deleted from the catalog before the save
C23_Witness ==
    /\ Loaded("xml")
    /\ Len(ledger) = 1
    /\ Len(Saved("xml").manager.orders[1].items) = 2
    /\ Len(LedgerValue[1].items) = 1

\* C24: after a load in any of the three formats every order of the ledger
\* has a Customer object of its own, whose history holds exactly that order,
\* once.
C24_CustomerPerOrder ==
    \A mode \in Modes :
        Loaded(mode) =>
            \A i \in 1..Len(ledger) :
                /\ customers[orders[ledger[i]].customer].history = <<ledger[i]>>
                /\ \A j \in 1..Len(ledger) :
                      i # j => orders[ledger[i]].customer # orders[ledger[j]].customer

\* two orders of one customer were saved and loaded
C24_Witness ==
    /\ \E mode \in Modes :
          /\ Loaded(mode)
          /\ Len(Saved(mode).history) = 2
          /\ Len(Saved(mode).history[1]) = 2
    /\ Len(ledger) = 2

\* C25: every product that can enter a StoreManager catalog, built by a
\* variant constructor, by Product.from_dict or by a load, has price >= 0,
\* stock >= 0 and a non-empty name; a constructor call or a record with a
\* negative price, a negative stock or an empty name is rejected.
C25_CatalogValid ==
    /\ \A i \in 1..Len(catalog) :
          /\ products[catalog[i]].price >= 0
          /\ products[catalog[i]].stock >= 0
          /\ products[catalog[i]].name # ""
    /\ (/\ last.op \in {"construct", "from_dict"}
        /\ (last.args.price < 0 \/ last.args.stock < 0 \/ last.args.name = ""))
          => ~last.ok

\* C26: remove_item(product) removes every line whose product has the
\* argument's price and name and leaves all other lines, their quantities
\* and their order unchanged; removing a product that is not in the cart
\* changes nothing and raises no error; clear() leaves the cart with no lines.
C26_RemoveItem ==
    [][/\ last'.op = "remove_item" =>
            LET arg == products[catalog[last'.args.product]]
                other(line) == ~(/\ line.product.price = arg.price
                                 /\ line.product.name = arg.name)
            IN /\ last'.ok
               /\ CartValue' = SelectSeq(CartValue, other)
               /\ CatalogValue' = CatalogValue
       /\ last'.op = "clear" => last'.ok /\ cart' = <<>>]_vars

\* a removal that left a line of another product in the cart
C26_Witness ==
    /\ last.op = "remove_item"
    /\ Len(cart) = 1
    /\ ~Product_eq(CartValue[1].product, products[catalog[last.args.product]])

\* C27: after any sequence of on_add, on_edit, on_delete, table sort and
\* language change, row i of the table model and index i of the manager's
\* catalog refer to the same product, so on_edit and on_delete of the
\* selected row change the catalog entry of the product shown in that row.
C27_TableAligned ==
    /\ Len(table) = Len(catalog)
    /\ \A i \in 1..Len(table) : table[i] = catalog[i]

\* the units the lines hold of products equal to p (same price and name)
Held(lines, p) ==
    SeqSum([i \in 1..Len(lines) |->
               IF Product_eq(lines[i].product, p) THEN lines[i].quantity ELSE 0],
           Len(lines))

\* C28: for each selected catalog product and chosen qty >= 1, on_add_to_cart
\* either lowers that product's stock by qty and raises the quantity the cart
\* holds for it by qty, or (when qty exceeds its stock) changes neither its
\* stock nor the cart; a failure for one selected product does not undo or
\* block the others.  Products that are equal share a cart line, so the
\* quantity held is counted per price and name: it rises by qty for every
\* selected product of that price and name that was bought.
C28_AddToCart ==
    [][last'.op = "on_add_to_cart" =>
         LET sel == last'.args.sel
             qty == last'.args.qty
             bought(k) == qty <= products[table[sel[k] + 1]].stock
         IN /\ \A k \in 1..Len(sel) :
                  LET p == products[table[sel[k] + 1]]
                      q == products'[table'[sel[k] + 1]]
                      equals == {j \in 1..Len(sel) :
                                    /\ bought(j)
                                    /\ Product_eq(products[table[sel[j] + 1]], p)}
                  IN /\ q.stock = IF bought(k) THEN p.stock - qty ELSE p.stock
                     /\ Held(CartValue', p) =
                            Held(CartValue, p) + qty * Cardinality(equals)
            /\ \A r \in 1..Len(table) :
                  (\A k \in 1..Len(sel) : sel[k] + 1 # r)
                      => products'[table'[r]] = products[table[r]]
            /\ (\A k \in 1..Len(sel) : ~bought(k)) => CartValue' = CartValue]_vars

\* two products were selected with qty 1: one is not in the cart (it was out
\* of stock: its unit left with an earlier cart), the other went into it
C28_Witness ==
    /\ last.op = "on_add_to_cart"
    /\ Len(last.args.sel) = 2
    /\ last.args.qty = 1
    /\ \E k, m \in 1..2 :
          LET failed == products[table[last.args.sel[k] + 1]]
              bought == products[table[last.args.sel[m] + 1]]
          IN /\ failed.stock = 0
             /\ Held(CartValue, failed) = 0
             /\ bought.stock = 0
             /\ Held(CartValue, bought) = 1

\* C29: on_clear_cart empties the cart and leaves the stock of every catalog
\* product unchanged (units that on_add_to_cart took out of stock are not
\* returned when the cart is cleared without a checkout), and the ledger is
\* unchanged.
C29_ClearCart ==
    [][last'.op = "on_clear_cart" =>
          /\ cart' = <<>>
          /\ CatalogValue' = CatalogValue
          /\ LedgerValue' = LedgerValue]_vars

\* a cleared cart, no order, and a product whose unit is neither in stock
\* nor anywhere else
C29_Witness ==
    /\ last.op = "on_clear_cart"
    /\ cart = <<>>
    /\ ledger = <<>>
    /\ \E i \in 1..Len(catalog) :
          products[catalog[i]].stock < default_products[i].stock

\* C30: across any sequence of checkouts and of saves and loads in the text
\* or binary format, every order in the held manager's ledger that has status
\* Paid has a payment attached whose status is Completed and whose amount is
\* at least the order's total_amount().
C30_PaidHasPayment ==
    \A i \in 1..Len(ledger) :
        LET order == orders[ledger[i]] IN
        order.status = "Paid" =>
            /\ order.payment # None
            /\ order.payment[1].status = "Completed"
            /\ order.payment[1].amount >= AsAmount(total_amount(Cur, ledger[i]))

\* a load in the text or binary format gave a ledger with a Paid order of a
\* positive total
C30_Witness ==
    /\ last.op = "on_load"
    /\ last.ok
    /\ last.args.mode \in {"json", "bin"}
    /\ \E i \in 1..Len(ledger) :
          /\ orders[ledger[i]].status = "Paid"
          /\ total_amount(Cur, ledger[i]) > 0

====
